---- MODULE Spec2Model ----
(***************************************************************************)
(* Scenario generation-and-validation pipeline of the scenario service:    *)
(* ScenarioGenerator (bounded retry loop, in-process cache with TTL),      *)
(* Scenario/Inject data model, ScenarioValidator and the compliance        *)
(* scorer.  Floats are modelled as exact rationals <<num, den>>; strings   *)
(* as TLA+ strings; uuid4 identifiers as a fresh counter.                  *)
(***************************************************************************)
EXTENDS Integers, Sequences, FiniteSets, TLC

VARIABLES
    cache,          \* ScenarioGenerator._cache : cache key -> entry
    calls,          \* one record per task running generate_scenario
    now,            \* datetime.utcnow(), in seconds
    ticks,          \* number of clock advances so far
    writes,         \* history: cache key -> number of _cache_scenario writes
    config,         \* ScenarioGenerator._config
    validatorKind,  \* the injected validator: "real" or a "stub" (Mock)
    validatorOrg,   \* ScenarioValidator._organization_context
    complianceCache, \* ScenarioValidator._compliance_cache : key -> result
    registry,       \* utils.compliance.COMPLIANCE_FRAMEWORKS as loaded
    subject,        \* the object a direct call of the model or scorer acts on
    outcome         \* what the last direct call returned

vars == <<cache, calls, now, ticks, writes, config,
          validatorKind, validatorOrg, complianceCache, registry, subject, outcome>>

----------------------------------------------------------------------------
(* Bounds of the model *)

MaxTicks == 1

\* the tasks that call generate_scenario, one call each; they may overlap
\* or follow each other, and "t2" never starts before "t1" has started
Tasks == {"t1", "t2"}

----------------------------------------------------------------------------
(* Program constants *)

DEFAULT_COMPLEXITY == 2
MAX_GENERATION_ATTEMPTS == 3
CACHE_TTL == 3600
DEFAULT_DURATION_MINUTES == 60
SecondsPerDay == 86400

SCENARIO_TYPES ==
    {"security_incident", "business_continuity", "compliance_validation",
     "crisis_management", "technical_recovery"}

\* SCENARIO_COMPLEXITY_LEVELS.values()
SCENARIO_COMPLEXITY_LEVELS == {1, 2, 3}

INJECT_TYPES == {"notification", "action", "decision", "escalation", "resolution"}

REQUIRED_CONTENT_FIELDS == {"message", "expected_response", "success_criteria"}

----------------------------------------------------------------------------
(* Exact rationals standing for Python floats *)

RECURSIVE GCD(_, _)
GCD(a, b) == IF b = 0 THEN a ELSE GCD(b, a % b)

Rat(n, d) == IF n = 0 THEN <<0, 1>>
             ELSE LET g == GCD(n, d) IN <<n \div g, d \div g>>

RGe(a, b) == a[1] * b[2] >= b[1] * a[2]
RLt(a, b) == ~RGe(a, b)
RAdd(a, b) == Rat(a[1] * b[2] + b[1] * a[2], a[2] * b[2])
RMul(a, b) == Rat(a[1] * b[1], a[2] * b[2])
RDiv(a, b) == Rat(a[1] * b[2], a[2] * b[1])
RZero == <<0, 1>>
ROne == <<1, 1>>

COMPLIANCE_THRESHOLD == Rat(95, 100)

----------------------------------------------------------------------------
(* Optional values: None is <<>>, a present value v is <<v>> *)

None == <<>>
Some(v) == <<v>>

\* Python's "x or default" for an optional int: None and 0 are both falsy
OrDefault(opt, default) ==
    IF opt = None THEN default
    ELSE IF opt[1] = 0 THEN default ELSE opt[1]

----------------------------------------------------------------------------
(* Python str() of the generate_scenario arguments.  A dict is a sequence *)
(* of <<key, value>> pairs (insertion order), a list a sequence of strings *)

RECURSIVE PyStrItems(_)
PyStrItems(d) ==
    IF d = <<>> THEN ""
    ELSE "'" \o Head(d)[1] \o "': '" \o Head(d)[2] \o "'"
         \o (IF Tail(d) = <<>> THEN "" ELSE ", " \o PyStrItems(Tail(d)))

PyStrDict(d) == "{" \o PyStrItems(d) \o "}"

RECURSIVE PyStrElems(_)
PyStrElems(l) ==
    IF l = <<>> THEN ""
    ELSE "'" \o Head(l) \o "'"
         \o (IF Tail(l) = <<>> THEN "" ELSE ", " \o PyStrElems(Tail(l)))

PyStrList(l) == "[" \o PyStrElems(l) \o "]"

\* mutant of the key: the scenario type alone
GenerateCacheKeyOfType(scenario_type, organization_context, compliance_frameworks, complexity) ==
    scenario_type

\* ScenarioGenerator._generate_cache_key: ":".join(str(arg) for arg in args)
GenerateCacheKey(scenario_type, organization_context, compliance_frameworks, complexity) ==
    scenario_type \o ":" \o PyStrDict(organization_context) \o ":"
        \o PyStrList(compliance_frameworks) \o ":" \o ToString(complexity)

----------------------------------------------------------------------------
(* Inject and Scenario (models/scenario.py) *)

\* Inject.validate_inject_type and Inject.validate_content: the constructor
\* raises for an unknown type or a missing required content field
InjectCtorRaises(inject_data) ==
    \/ inject_data.type \notin INJECT_TYPES
    \/ ~(REQUIRED_CONTENT_FIELDS \subseteq inject_data.content)

\* Inject.__init__: metadata defaults to the telemetry record, which holds
\* no ai_content_score; a delivered metadata is kept as it is
NewInject(inject_data) ==
    [title |-> inject_data.title,
     description |-> inject_data.description,
     type |-> inject_data.type,
     sequence_number |-> inject_data.sequence_number,
     delay_minutes |-> inject_data.delay_minutes,
     content |-> inject_data.content,
     ai_content_score |-> inject_data.ai_content_score]

\* Scenario.validate_scenario_type and Scenario.validate_complexity
ScenarioCtorRaises(type, complexity_level) ==
    \/ type \notin SCENARIO_TYPES
    \/ complexity_level \notin SCENARIO_COMPLEXITY_LEVELS

\* Scenario.__init__
NewScenario(id, title, description, type, complexity_level, organization_context, compliance_mappings, ai_generated, compliance_frameworks) ==
    [id |-> id,
     title |-> title,
     description |-> description,
     type |-> type,
     complexity_level |-> complexity_level,
     duration_minutes |-> DEFAULT_DURATION_MINUTES,
     injects |-> <<>>,
     compliance_mappings |-> compliance_mappings,
     organization_context |-> organization_context,
     ai_generated |-> ai_generated,
     compliance_frameworks |-> compliance_frameworks,
     ai_description_score |-> None,
     inject_count |-> 0]

RECURSIVE SumDelays(_)
SumDelays(injects) ==
    IF injects = <<>> THEN 0
    ELSE Head(injects).delay_minutes + SumDelays(Tail(injects))

\* one step of the stable sort: into a sorted list the new element goes
\* behind every element whose key is <= its own
RECURSIVE InsertSorted(_, _)
InsertSorted(injects, inject) ==
    IF injects = <<>> THEN <<inject>>
    ELSE IF Head(injects).sequence_number <= inject.sequence_number
         THEN <<Head(injects)>> \o InsertSorted(Tail(injects), inject)
         ELSE <<inject>> \o injects

\* a sort that leaves the list as it is
SortNothing(injects) == injects

\* list.sort(key=sequence_number): a stable sort of the whole list
RECURSIVE SortBySequenceNumber(_)
SortBySequenceNumber(injects) ==
    IF injects = <<>> THEN <<>>
    ELSE InsertSorted(SortBySequenceNumber(SubSeq(injects, 1, Len(injects) - 1)),
                      injects[Len(injects)])

\* add_inject without the uniqueness check
AddInjectUnchecked(scenario, inject) ==
    IF SumDelays(scenario.injects) + inject.delay_minutes > scenario.duration_minutes
    THEN <<FALSE, Some("Total inject duration exceeds scenario duration"), scenario>>
    ELSE <<TRUE, None,
           [scenario EXCEPT !.injects = SortBySequenceNumber(Append(scenario.injects, inject)),
                            !.inject_count = Len(scenario.injects) + 1]>>

\* add_inject without the timeline check
AddInjectNoTimeline(scenario, inject) ==
    IF \E i \in 1..Len(scenario.injects) :
           scenario.injects[i].sequence_number = inject.sequence_number
    THEN <<FALSE,
           Some("Sequence number " \o ToString(inject.sequence_number) \o " already exists"),
           scenario>>
    ELSE <<TRUE, None,
           [scenario EXCEPT !.injects = SortBySequenceNumber(Append(scenario.injects, inject)),
                            !.inject_count = Len(scenario.injects) + 1]>>

\* Scenario.add_inject: <<success, error, scenario after the call>>.  The
\* two timestamps written with the telemetry (updated_at, last_inject_added)
\* are written in the same branch as inject_count and are not modelled
AddInject(scenario, inject) ==
    IF \E i \in 1..Len(scenario.injects) :
           scenario.injects[i].sequence_number = inject.sequence_number
    THEN <<FALSE,
           Some("Sequence number " \o ToString(inject.sequence_number) \o " already exists"),
           scenario>>
    ELSE IF SumDelays(scenario.injects) + inject.delay_minutes > scenario.duration_minutes
    THEN <<FALSE, Some("Total inject duration exceeds scenario duration"), scenario>>
    ELSE <<TRUE, None,
           [scenario EXCEPT !.injects = SortBySequenceNumber(Append(scenario.injects, inject)),
                            !.inject_count = Len(scenario.injects) + 1]>>

\* the loop of generate_scenario over the delivered injects (lines 135-140):
\* a rejected inject is skipped
RECURSIVE AddInjects(_, _)
AddInjects(scenario, inject_datas) ==
    IF inject_datas = <<>> THEN scenario
    ELSE AddInjects(AddInject(scenario, NewInject(Head(inject_datas)))[3],
                    Tail(inject_datas))

----------------------------------------------------------------------------
(* Compliance registry and scorer (utils/compliance.py).  Dicts are         *)
(* functions on their keys.  A compliance mapping holds, under "controls", *)
(* one implementation per control id; an implementation holds, under its   *)
(* own "controls", one entry per requirement sentence; an entry is         *)
(* [description, evidence, artifacts], each flag telling whether that key  *)
(* is present and truthy.  A missing or empty entry is outside the domain. *)

COMPLIANCE_FRAMEWORKS ==
    [soc2 |-> [controls |->
                  [cc1 |-> [requirements |->
                               <<"cc1.1: Demonstrate commitment to integrity and ethical values",
                                 "cc1.2: Exercise oversight responsibility",
                                 "cc1.3: Establish structure, authority, and responsibility",
                                 "cc1.4: Demonstrate commitment to competence">>,
                            severity |-> "critical"]]],
     gdpr |-> [controls |->
                  [art5 |-> [requirements |->
                                <<"art5.1.a: Lawfulness, fairness and transparency",
                                  "art5.1.b: Purpose limitation",
                                  "art5.1.c: Data minimisation">>,
                             severity |-> "critical"]]]]

\* the registry with the further controls its source leaves room for
\* ("Additional controls would be defined here"): one control of every
\* severity under soc2
ExtendedFrameworks ==
    [COMPLIANCE_FRAMEWORKS EXCEPT
        !.soc2.controls =
            [cc1 |-> COMPLIANCE_FRAMEWORKS.soc2.controls.cc1,
             cc2 |-> [requirements |-> <<"cc2.1: Communicate objectives">>,
                      severity |-> "high"],
             cc3 |-> [requirements |-> <<"cc3.1: Specify suitable objectives">>,
                      severity |-> "medium"],
             cc4 |-> [requirements |-> <<"cc4.1: Select and perform evaluations">>,
                      severity |-> "low"]]]

\* dict.get(key, default)
Get(d, key, default) == IF key \in DOMAIN d THEN d[key] ELSE default

EmptyDict == [k \in {} |-> 0]

CONTROL_WEIGHTS ==
    [critical |-> Rat(10, 10), high |-> Rat(8, 10), medium |-> Rat(6, 10), low |-> Rat(4, 10)]

VALIDATION_LEVELS ==
    [strict |-> [threshold |-> Rat(95, 100), require_evidence |-> TRUE],
     standard |-> [threshold |-> Rat(85, 100), require_evidence |-> FALSE]]

\* mutant of the requirement score: evidence alone earns both shares
ValidateRequirementLenient(requirement, implementation, level_config) ==
    IF requirement \notin DOMAIN (IF "controls" \in DOMAIN implementation THEN implementation.controls ELSE <<>>) THEN <<0, 1>>
    ELSE LET implementation_data == implementation.controls[requirement]
         IN  <<(IF implementation_data.description THEN 4 ELSE 0)
                + (IF implementation_data.evidence THEN 6 ELSE 0), 10>>

\* ComplianceFramework._validate_requirement
ValidateRequirement(requirement, implementation, level_config) ==
    IF requirement \notin DOMAIN Get(implementation, "controls", EmptyDict) THEN RZero
    ELSE LET implementation_data == implementation.controls[requirement]
             s1 == IF implementation_data.description THEN Rat(4, 10) ELSE RZero
             s2 == IF level_config.require_evidence
                   THEN RAdd(IF implementation_data.evidence THEN Rat(3, 10) ELSE RZero,
                             IF implementation_data.artifacts THEN Rat(3, 10) ELSE RZero)
                   ELSE Rat(6, 10)
         IN  RAdd(s1, s2)

RECURSIVE SumRequirements(_, _, _)
SumRequirements(requirements, implementation, level_config) ==
    IF requirements = <<>> THEN RZero
    ELSE RAdd(ValidateRequirement(Head(requirements), implementation, level_config),
              SumRequirements(Tail(requirements), implementation, level_config))

\* ComplianceFramework.validate_control raises ValueError for a control the
\* framework does not have
ValidateControlRaises(framework_id, control_id) ==
    control_id \notin DOMAIN registry[framework_id].controls

\* ComplianceFramework.validate_control: the control score
ValidateControl(framework_id, control_id, implementation, validation_level) ==
    LET control == registry[framework_id].controls[control_id]
        level_config == VALIDATION_LEVELS[validation_level]
        total_score == SumRequirements(control.requirements, implementation, level_config)
        control_score == RDiv(total_score, <<Len(control.requirements), 1>>)
    IN  [score |-> control_score,
         is_compliant |-> RGe(control_score, level_config.threshold)]

RECURSIVE SumOver(_, _)
SumOver(f, S) ==
    IF S = {} THEN RZero
    ELSE LET x == CHOOSE x \in S : TRUE
         IN  RAdd(f[x], SumOver(f, S \ {x}))

\* validate_compliance_mapping raises ValueError for an unsupported framework
\* or (through validate_control) an unknown control id
ValidateComplianceMappingRaises(scenario_mapping, framework_id) ==
    \/ framework_id \notin DOMAIN registry
    \/ \E control_id \in DOMAIN Get(scenario_mapping, "controls", EmptyDict) :
           ValidateControlRaises(framework_id, control_id)

\* validate_compliance_mapping
ValidateComplianceMapping(scenario_mapping, framework_id, validation_level) ==
    LET controls == Get(scenario_mapping, "controls", EmptyDict)
        ids == DOMAIN controls
        scores == [c \in ids |->
                      ValidateControl(framework_id, c, controls[c],
                                      validation_level).score]
        overall == IF Cardinality(ids) > 0
                   THEN RDiv(SumOver(scores, ids), <<Cardinality(ids), 1>>)
                   ELSE RZero
    IN  [controls |-> scores,
         overall_score |-> overall,
         is_compliant |-> RGe(overall, VALIDATION_LEVELS[validation_level].threshold)]

\* the unweighted mean of the control scores
UnweightedMean(control_scores, framework_id) ==
    IF DOMAIN control_scores = {} THEN RZero
    ELSE RDiv(SumOver(control_scores, DOMAIN control_scores),
              <<Cardinality(DOMAIN control_scores), 1>>)

\* calculate_compliance_score: overall_score of the score breakdown
CalculateComplianceScore(control_scores, framework_id) ==
    LET ids == DOMAIN control_scores
        weight == [c \in ids |->
                      CONTROL_WEIGHTS[registry[framework_id].controls[c].severity]]
        weighted == [c \in ids |-> RMul(control_scores[c], weight[c])]
        total_weight == SumOver(weight, ids)
    IN  IF RGe(RZero, total_weight) THEN RZero
        ELSE RDiv(SumOver(weighted, ids), total_weight)

----------------------------------------------------------------------------
(* ScenarioValidator (services/scenario_validator.py) *)

VALIDATION_RULES ==
    [min_injects |-> 3, max_injects |-> 10, min_duration |-> 30, max_duration |-> 240,
     compliance_threshold |-> Rat(95, 100), ai_content_confidence |-> Rat(85, 100),
     max_complexity_level |-> 5]

\* a structure gate that lets every scenario through
StructureGateOpen(scenario) == <<>>

\* ScenarioValidator._validate_basic_structure: the issue, or <<>> when it passes
ValidateBasicStructure(scenario) ==
    IF Len(scenario.title) < 5 THEN <<"Invalid scenario title">>
    ELSE IF Len(scenario.description) < 20 THEN <<"Invalid scenario description">>
    ELSE IF scenario.organization_context = <<>> THEN <<"Missing organization context">>
    ELSE <<>>

\* validate_scenario_type
ValidateScenarioType(scenario_type, organization_context) ==
    /\ scenario_type \in SCENARIO_TYPES
    /\ scenario_type \in organization_context.scenario_capabilities

\* validate_scenario_complexity
ValidateScenarioComplexity(complexity_level, organization_context) ==
    LET max_complexity == IF organization_context.max_complexity = None
                          THEN VALIDATION_RULES.max_complexity_level
                          ELSE organization_context.max_complexity[1]
    IN  1 <= complexity_level /\ complexity_level <= max_complexity

\* ScenarioValidator._validate_single_inject
ValidateSingleInject(inject) ==
    (IF Len(inject.title) < 5 THEN <<"Invalid inject title">> ELSE <<>>)
    \o (IF Len(inject.description) < 20 THEN <<"Invalid inject description">> ELSE <<>>)
    \o (IF ~(REQUIRED_CONTENT_FIELDS \subseteq inject.content)
        THEN <<"Missing required content fields">> ELSE <<>>)

\* the loop of validate_injects (lines 192-205) over injects[i..]
RECURSIVE InjectLoopIssues(_, _)
InjectLoopIssues(injects, i) ==
    IF i > Len(injects) THEN <<>>
    ELSE ValidateSingleInject(injects[i])
         \o (IF \E j \in 1..(i - 1) :
                    injects[j].sequence_number = injects[i].sequence_number
             THEN <<"Duplicate sequence number">> ELSE <<>>)
         \o InjectLoopIssues(injects, i + 1)

\* ScenarioValidator.validate_injects
ValidateInjects(injects) ==
    IF ~(VALIDATION_RULES.min_injects <= Len(injects)
         /\ Len(injects) <= VALIDATION_RULES.max_injects)
    THEN [is_valid |-> FALSE, timeline_valid |-> FALSE, issues |-> <<"Invalid inject count">>]
    ELSE LET total_duration == SumDelays(injects)
             timeline == IF total_duration < VALIDATION_RULES.min_duration
                         THEN <<"Total duration below minimum">>
                         ELSE IF total_duration > VALIDATION_RULES.max_duration
                         THEN <<"Total duration exceeds maximum">>
                         ELSE <<>>
             issues == InjectLoopIssues(injects, 1) \o timeline
         IN  [is_valid |-> issues = <<>>,
              timeline_valid |-> timeline = <<>>,
              issues |-> issues]

\* the cache key of validate_compliance_requirements (line 237): the
\* f-string of the scenario id and of the framework_id argument as passed
ComplianceCacheKey(scenario, framework_id) ==
    ToString(scenario.id) \o ":" \o (IF framework_id = None THEN "None" ELSE framework_id[1])

\* the try block and the except clause of validate_compliance_requirements
\* (lines 241-278)
ComputeCompliance(scenario, framework_id, organization_context) ==
    LET fid == IF framework_id # None THEN framework_id[1]
               ELSE IF organization_context.primary_framework # None
                    THEN organization_context.primary_framework[1]
                    ELSE "soc2"
    IN  IF ValidateComplianceMappingRaises(scenario.compliance_mappings, fid)
        THEN [is_compliant |-> FALSE, overall_score |-> RZero, error |-> TRUE]
        ELSE LET validation_results ==
                     ValidateComplianceMapping(scenario.compliance_mappings, fid, "strict")
                 score_details ==
                     CalculateComplianceScore(validation_results.controls, fid)
             IN  [is_compliant |-> RGe(score_details, VALIDATION_RULES.compliance_threshold),
                  overall_score |-> validation_results.overall_score,
                  error |-> FALSE]

\* ScenarioValidator.validate_compliance_requirements: the cached pair when
\* the key is in the cache, the computation otherwise
ValidateComplianceRequirements(scenario, framework_id, organization_context) ==
    LET cache_key == ComplianceCacheKey(scenario, framework_id)
    IN  IF cache_key \in DOMAIN complianceCache THEN complianceCache[cache_key]
        ELSE ComputeCompliance(scenario, framework_id, organization_context)

\* a validator that never stores a result
ComplianceCacheNever(scenario, framework_id, organization_context) == complianceCache

\* _compliance_cache after validate_compliance_requirements: a computation
\* that went through is stored (lines 264-267), one that raised is not
ComplianceCacheAfter(scenario, framework_id, organization_context) ==
    LET cache_key == ComplianceCacheKey(scenario, framework_id)
        computed == ComputeCompliance(scenario, framework_id, organization_context)
    IN  IF cache_key \in DOMAIN complianceCache \/ computed.error THEN complianceCache
        ELSE (cache_key :> computed) @@ complianceCache

RECURSIVE InjectScores(_)
InjectScores(injects) ==
    IF injects = <<>> THEN <<>>
    ELSE (IF Head(injects).ai_content_score # None
             /\ Head(injects).ai_content_score[1] # RZero
          THEN <<Head(injects).ai_content_score[1]>> ELSE <<>>)
         \o InjectScores(Tail(injects))

RECURSIVE SumSeq(_)
SumSeq(s) == IF s = <<>> THEN RZero ELSE RAdd(Head(s), SumSeq(Tail(s)))

\* mutant of the AI gate: content without a score is trusted
AiContentTrusted(scenario) == <<1, 1>>

\* ScenarioValidator._validate_ai_content
ValidateAiContent(scenario) ==
    IF ~scenario.ai_generated THEN ROne
    ELSE LET confidence_scores ==
                 (IF scenario.ai_description_score # None
                     /\ scenario.ai_description_score[1] # RZero
                  THEN <<scenario.ai_description_score[1]>> ELSE <<>>)
                 \o InjectScores(scenario.injects)
         IN  IF confidence_scores = <<>> THEN RZero
             ELSE RDiv(SumSeq(confidence_scores), <<Len(confidence_scores), 1>>)

\* a verdict that looks at the issue list alone
VerdictFromIssuesOnly(issues, compliance_score, ai_generated, ai_confidence) ==
    issues = <<>>

\* the final validation status of validate_scenario (lines 146-151)
FinalVerdict(issues, compliance_score, ai_generated, ai_confidence) ==
    /\ issues = <<>>
    /\ RGe(compliance_score, VALIDATION_RULES.compliance_threshold)
    /\ (~ai_generated \/ RGe(ai_confidence, VALIDATION_RULES.ai_content_confidence))

\* an issue list that stops at the first gate that fails
FirstFailingGateOnly(type_issue, complexity_issue, inject_issues, compliance_issue, ai_issue) ==
    IF type_issue # <<>> THEN type_issue
    ELSE IF complexity_issue # <<>> THEN complexity_issue
    ELSE IF inject_issues # <<>> THEN inject_issues
    ELSE IF compliance_issue # <<>> THEN compliance_issue
    ELSE ai_issue

\* the issue list of validate_scenario after the structure gate: every gate
\* appends to it in turn (lines 96-143)
CollectIssues(type_issue, complexity_issue, inject_issues, compliance_issue, ai_issue) ==
    type_issue \o complexity_issue \o inject_issues \o compliance_issue \o ai_issue

\* the keys of validation_result as validate_scenario creates it
\* (lines 81-89)
InitialReportKeys ==
    {"timestamp", "scenario_id", "is_valid", "validation_details", "compliance_score",
     "ai_confidence", "issues"}

\* ScenarioValidator.validate_scenario.  The return of the structure gate
\* (line 93) leaves before validation_duration is recorded (line 160)
ValidateScenario(scenario, organization_context) ==
    LET structure == ValidateBasicStructure(scenario)
        type_issue == IF ValidateScenarioType(scenario.type, organization_context)
                      THEN <<>> ELSE <<"Invalid scenario type">>
        complexity_issue ==
            IF ValidateScenarioComplexity(scenario.complexity_level, organization_context)
            THEN <<>> ELSE <<"Invalid complexity level">>
        inject_results == ValidateInjects(scenario.injects)
        inject_issues == IF inject_results.is_valid THEN <<>> ELSE inject_results.issues
        compliance == ValidateComplianceRequirements(
                          scenario, organization_context.primary_framework,
                          organization_context)
        compliance_issue == IF compliance.is_compliant THEN <<>>
                            ELSE <<"Compliance score below required threshold">>
        ai_confidence == IF scenario.ai_generated THEN ValidateAiContent(scenario)
                         ELSE RZero
        ai_issue == IF scenario.ai_generated
                       /\ RLt(ai_confidence, VALIDATION_RULES.ai_content_confidence)
                    THEN <<"AI content confidence below threshold">> ELSE <<>>
        issues == CollectIssues(type_issue, complexity_issue, inject_issues,
                                compliance_issue, ai_issue)
    IN  IF structure # <<>>
        THEN [is_valid |-> FALSE, issues |-> structure, compliance_score |-> RZero,
              ai_confidence |-> RZero, details |-> {}, keys |-> InitialReportKeys]
        ELSE [is_valid |-> FinalVerdict(issues, compliance.overall_score,
                                        scenario.ai_generated, ai_confidence),
              issues |-> issues,
              compliance_score |-> compliance.overall_score,
              ai_confidence |-> ai_confidence,
              details |-> {"injects", "compliance"},
              keys |-> InitialReportKeys \cup {"validation_duration"}]

----------------------------------------------------------------------------
(* Inputs: arguments of generate_scenario and replies of the content source *)

TechOrg == <<<<"industry", "technology">>, <<"size", "enterprise">>>>

TypeArgs == {"security_incident", "invalid_type"}
OrgArgs == {TechOrg}
FrameworkArgs == {<<"SOC2">>}
ComplexityArgs == {None} \cup {Some(n) : n \in {-1, 0, 3, 5, 6}}

GoodTitle == "Ransomware Incident Response"
GoodDescription == "Enterprise-wide ransomware incident response exercise"

Soc2Requirements ==
    {COMPLIANCE_FRAMEWORKS.soc2.controls.cc1.requirements[i] : i \in 1..4}

\* a single-control mapping with description, evidence and artifacts for
\* every requirement of cc1
FullMapping ==
    [controls |->
        [cc1 |-> [controls |->
                     [r \in Soc2Requirements |->
                         [description |-> TRUE, evidence |-> TRUE, artifacts |-> TRUE]]]]]

\* the same without artifacts
NoArtifactsMapping ==
    [controls |->
        [cc1 |-> [controls |->
                     [r \in Soc2Requirements |->
                         [description |-> TRUE, evidence |-> TRUE, artifacts |-> FALSE]]]]]

\* an implementation of a control with the given entry for each of its
\* requirements
Implemented(control, entry) ==
    [controls |-> [r \in {control.requirements[i] : i \in 1..Len(control.requirements)}
                      |-> entry]]

Complete == [description |-> TRUE, evidence |-> TRUE, artifacts |-> TRUE]
\* the shape of the validator tests: description, evidence and
\* implementation directly under the control id, for every control of soc2
TestShapeMapping ==
    [controls |->
        [cc1 |-> [description |-> TRUE, evidence |-> TRUE, implementation |-> TRUE]]]

\* the fully evidenced cc1 beside a control id that soc2 does not have
UnknownControlMapping ==
    [controls |-> ("cc1.1" :> Implemented(COMPLIANCE_FRAMEWORKS.soc2.controls.cc1, Complete))
                  @@ FullMapping.controls]

\* for the extended registry: the critical control complete and the low
\* control mapped without anything to show
CriticalAndLowMapping ==
    [controls |->
        [cc1 |-> Implemented(ExtendedFrameworks.soc2.controls.cc1, Complete),
         cc4 |-> EmptyDict]]

\* for the extended registry: every control complete but the low one,
\* which lacks artifacts
AllControlsMapping ==
    [controls |->
        [cc1 |-> Implemented(ExtendedFrameworks.soc2.controls.cc1, Complete),
         cc2 |-> Implemented(ExtendedFrameworks.soc2.controls.cc2, Complete),
         cc3 |-> Implemented(ExtendedFrameworks.soc2.controls.cc3, Complete),
         cc4 |-> Implemented(ExtendedFrameworks.soc2.controls.cc4,
                             [description |-> TRUE, evidence |-> TRUE,
                              artifacts |-> FALSE])]]

\* replies of generate_scenario.  A stub validator does not look at the
\* candidate, so one reply stands for all of them under it
ScenarioDatas ==
    {[title |-> GoodTitle, description |-> GoodDescription,
      compliance_mappings |-> m] :
        m \in IF validatorKind = "real" THEN {FullMapping, NoArtifactsMapping}
              ELSE {FullMapping}}

InjectData(type, sequence_number, delay_minutes, score) ==
    [title |-> "Initial Detection",
     description |-> "Detection of ransomware indicators",
     type |-> type,
     sequence_number |-> sequence_number,
     delay_minutes |-> delay_minutes,
     content |-> REQUIRED_CONTENT_FIELDS,
     ai_content_score |-> score]

HighScore == Some(Rat(9, 10))

\* the shape of the content-source interface: no metadata
PlainInjects ==
    <<InjectData("notification", 1, 10, None), InjectData("action", 2, 20, None),
      InjectData("resolution", 3, 10, None)>>

\* the same with a content-quality score in the metadata
ScoredInjects ==
    <<InjectData("notification", 1, 10, HighScore), InjectData("action", 2, 20, HighScore),
      InjectData("resolution", 3, 10, HighScore)>>

\* out of order, with a duplicate sequence number and a timeline overflow
MessyInjects ==
    <<InjectData("resolution", 3, 10, HighScore), InjectData("notification", 1, 10, HighScore),
      InjectData("action", 1, 5, HighScore), InjectData("action", 2, 25, HighScore),
      InjectData("escalation", 4, 30, HighScore)>>

\* an inject of an unknown type
BadTypeInjects ==
    <<InjectData("notification", 1, 10, HighScore), InjectData("broadcast", 2, 20, HighScore),
      InjectData("resolution", 3, 10, HighScore)>>

\* too few injects for the validator, and none with a content-quality score
FewInjects == SubSeq(PlainInjects, 1, 2)

\* three injects that together stay below the minimum duration
BriefInjects ==
    <<InjectData("notification", 1, 5, HighScore), InjectData("action", 2, 5, HighScore),
      InjectData("resolution", 3, 5, HighScore)>>

\* the first inject carries a content-quality score of 0.0
ZeroScoreInjects ==
    <<InjectData("notification", 1, 10, Some(RZero)), InjectData("action", 2, 20, HighScore),
      InjectData("resolution", 3, 10, HighScore)>>

\* replies of generate_injects
InjectLists ==
    IF validatorKind = "real"
    THEN {PlainInjects, ScoredInjects, MessyInjects, BadTypeInjects}
    ELSE {MessyInjects, BadTypeInjects}

\* verdicts of a stub validator (unittest.mock.Mock): any is_valid with a
\* compliance score on either side of the threshold
StubVerdict(is_valid, compliance_score) ==
    [is_valid |-> is_valid, issues |-> <<>>, compliance_score |-> compliance_score,
     ai_confidence |-> RZero, details |-> {}]

StubVerdicts ==
    {StubVerdict(b, s) : b \in BOOLEAN, s \in {Rat(85, 100), Rat(96, 100)}}

ValidatorOrgs ==
    {[scenario_capabilities |-> {"security_incident"}, scenario_types |-> {},
      max_complexity |-> None, primary_framework |-> None]}

----------------------------------------------------------------------------
(* ScenarioGenerator (services/scenario_generator.py) *)

NoScenario == [id |-> 0]

\* no direct call has returned yet
NoOutcome == [op |-> "none"]

\* uuid4: an identifier no live Scenario carries (the least such number)
UsedIds ==
    {calls[t].scenario.id : t \in DOMAIN calls}
    \cup {calls[t].result.scenario.id : t \in DOMAIN calls}
    \cup {cache[k].scenario.id : k \in DOMAIN cache} \cup {0}

FreshId == CHOOSE i \in 1..(Cardinality(UsedIds) + 1) :
               i \notin UsedIds /\ \A j \in 1..(i - 1) : j \in UsedIds

NoValidation == [none |-> TRUE]
NoResult == [scenario |-> NoScenario, validation |-> NoValidation]

EmptyMap == [k \in {} |-> 0]

\* timedelta.seconds of a non-negative difference: the days are split off
TimedeltaSeconds(delta) == delta % SecondsPerDay

\* mutant of the lookup: the age test is inverted
CacheHitInverted(ch, cache_key, t) ==
    /\ cache_key \in DOMAIN ch
    /\ TimedeltaSeconds(t - ch[cache_key].timestamp) >= config.cache_ttl

\* ScenarioGenerator._get_cached_scenario: TRUE when the lookup returns a pair
CacheHit(ch, cache_key, t) ==
    /\ cache_key \in DOMAIN ch
    /\ TimedeltaSeconds(t - ch[cache_key].timestamp) < config.cache_ttl

\* mutant of the write: an entry already stored under the key is kept
CacheScenarioFirstWins(ch, cache_key, scenario, validation, t) ==
    ch @@ (cache_key :> [scenario |-> scenario, validation |-> validation, timestamp |-> t])

\* ScenarioGenerator._cache_scenario
CacheScenario(ch, cache_key, scenario, validation, t) ==
    (cache_key :> [scenario |-> scenario, validation |-> validation, timestamp |-> t])
        @@ ch

\* mutants of the acceptance test: one of its two conjuncts is dropped
AcceptedIgnoringScore(is_valid, compliance_score) == is_valid

AcceptedIgnoringVerdict(is_valid, compliance_score) ==
    RGe(compliance_score, config.compliance_threshold)

\* the acceptance test of generate_scenario (line 145)
Accepted(is_valid, compliance_score) ==
    is_valid /\ RGe(compliance_score, config.compliance_threshold)

\* mutant of the except clause: a bare "except" that catches everything
CaughtByBareExcept(exc) == TRUE

\* "except Exception" (line 165): asyncio.CancelledError derives from
\* BaseException and is not caught
CaughtByExcept(exc) == exc # "CancelledError"

\* self._validator.validate_scenario(scenario): the verdicts it can return
Verdicts(scenario) ==
    IF validatorKind = "real" THEN {ValidateScenario(scenario, validatorOrg)}
    ELSE StubVerdicts

IdleCall ==
    [pc |-> "idle", type |-> "", organization_context |-> <<>>,
     compliance_frameworks |-> <<>>, complexity_level |-> None, complexity |-> 0,
     cache_key |-> "", attempts |-> 0, scenario |-> NoScenario, result |-> NoResult,
     \* history of the call
     llmCalls |-> 0, validations |-> 0, rejects |-> 0,
     fromCache |-> FALSE,    \* returned the cached pair
     lookupAge |-> -1,       \* age of the entry found by the lookup, -1: none
     writesAtStart |-> 0,    \* writes to its key before the lookup
     wrote |-> FALSE,        \* the call wrote the cache
     writeNo |-> 0,          \* which write to its key was its own
     cancelled |-> FALSE,    \* CancelledError was thrown into the call
     failedBy |-> ""]        \* what raised in the attempt before this one

Finished == {"idle", "returned", "raisedValueError", "raisedRuntimeError", "cancelled"}
Awaiting == {"awaitScenario", "awaitInjects"}

\* mutant of the loop head: a candidate at hand is kept and only its
\* injects are requested again
NextAttemptKeepsCandidate(rec) ==
    IF rec.attempts < config.max_attempts
    THEN IF rec.scenario.id # 0 THEN [rec EXCEPT !.pc = "awaitInjects"]
         ELSE [rec EXCEPT !.pc = "awaitScenario", !.llmCalls = @ + 1]
    ELSE [rec EXCEPT !.pc = "raisedRuntimeError", !.scenario = [id |-> 0]]

\* mutant of the loop head: "<=" for "<"
NextAttemptOffByOne(rec) ==
    IF rec.attempts <= config.max_attempts
    THEN [rec EXCEPT !.pc = "awaitScenario", !.scenario = NoScenario,
                     !.llmCalls = @ + 1]
    ELSE [rec EXCEPT !.pc = "raisedRuntimeError", !.scenario = NoScenario]

\* head of the while loop (line 104): either the next content request is
\* issued (line 107) or the attempts are exhausted (line 169)
NextAttempt(rec) ==
    IF rec.attempts < config.max_attempts
    THEN [rec EXCEPT !.pc = "awaitScenario", !.scenario = NoScenario,
                     !.llmCalls = @ + 1]
    ELSE [rec EXCEPT !.pc = "raisedRuntimeError", !.scenario = NoScenario]

\* mutant of the except clause: the first exception ends the call
FailedAttemptGivesUp(rec) ==
    [rec EXCEPT !.attempts = @ + 1, !.pc = "raisedRuntimeError", !.scenario = NoScenario]

\* the except clause (lines 165-167) followed by the loop head
FailedAttempt(rec) ==
    NextAttempt([rec EXCEPT !.attempts = @ + 1])

\* mutant of the rejection path: the attempt is not counted
RejectedAttemptUncounted(rec) ==
    NextAttempt([rec EXCEPT !.rejects = @ + 1])

\* a rejected candidate (lines 159-163) followed by the loop head
RejectedAttempt(rec) ==
    NextAttempt([rec EXCEPT !.attempts = @ + 1, !.rejects = @ + 1])

WritesTo(cache_key) == IF cache_key \in DOMAIN writes THEN writes[cache_key] ELSE 0

----------------------------------------------------------------------------
(* Actions *)

Init ==
    /\ cache = EmptyMap
    /\ calls = [t \in Tasks |-> IdleCall]
    /\ now = 0
    /\ ticks = 0
    /\ writes = EmptyMap
    /\ config \in {[max_attempts |-> n, compliance_threshold |-> COMPLIANCE_THRESHOLD,
                    cache_ttl |-> CACHE_TTL] : n \in 1..MAX_GENERATION_ATTEMPTS}
    /\ validatorKind = "stub"
    /\ validatorOrg \in ValidatorOrgs
    /\ complianceCache = EmptyDict
    /\ registry = COMPLIANCE_FRAMEWORKS
    /\ subject = NoScenario
    /\ outcome = NoOutcome

\* mutant of the entry: one call per key at a time; a call waits while
\* another is suspended in the content source for the same key
StartSingleFlight(t, scenario_type, organization_context, compliance_frameworks, complexity_level) ==
    /\ calls[t].pc = "idle"
    /\ \A o \in Tasks \ {t} :
           calls[o].pc \in Awaiting =>
               calls[o].cache_key # GenerateCacheKey(scenario_type, organization_context,
                                                     compliance_frameworks,
                                                     OrDefault(complexity_level,
                                                               DEFAULT_COMPLEXITY))
    /\ t = "t2" => calls["t1"].pc # "idle"
    /\ LET complexity == OrDefault(complexity_level, DEFAULT_COMPLEXITY)
           cache_key == GenerateCacheKey(scenario_type, organization_context,
                                         compliance_frameworks, complexity)
           rec == [IdleCall EXCEPT !.type = scenario_type,
                                   !.organization_context = organization_context,
                                   !.compliance_frameworks = compliance_frameworks,
                                   !.complexity_level = complexity_level]
           looked == [rec EXCEPT !.complexity = complexity,
                                 !.cache_key = cache_key,
                                 !.writesAtStart = WritesTo(cache_key),
                                 !.lookupAge = IF cache_key \in DOMAIN cache
                                               THEN now - cache[cache_key].timestamp
                                               ELSE -1]
       IN  calls' = [calls EXCEPT ![t] =
               IF scenario_type \notin SCENARIO_TYPES
               THEN [rec EXCEPT !.pc = "raisedValueError"]
               ELSE IF ~(1 <= complexity /\ complexity <= 5)
               THEN [rec EXCEPT !.pc = "raisedValueError", !.complexity = complexity]
               ELSE IF CacheHit(cache, cache_key, now)
               THEN [looked EXCEPT !.pc = "returned",
                                   !.result = [scenario |-> cache[cache_key].scenario,
                                               validation |-> cache[cache_key].validation],
                                   !.fromCache = TRUE]
               ELSE NextAttempt(looked)]
    /\ UNCHANGED <<cache, now, ticks, writes, config, validatorKind, validatorOrg, complianceCache, registry, subject, outcome>>

\* generate_scenario from its entry to its first suspension point
\* (lines 80-107): argument checks, cache lookup, first content request
Start(t, scenario_type, organization_context, compliance_frameworks, complexity_level) ==
    /\ calls[t].pc = "idle"
    /\ t = "t2" => calls["t1"].pc # "idle"
    /\ LET complexity == OrDefault(complexity_level, DEFAULT_COMPLEXITY)
           cache_key == GenerateCacheKey(scenario_type, organization_context,
                                         compliance_frameworks, complexity)
           rec == [IdleCall EXCEPT !.type = scenario_type,
                                   !.organization_context = organization_context,
                                   !.compliance_frameworks = compliance_frameworks,
                                   !.complexity_level = complexity_level]
           looked == [rec EXCEPT !.complexity = complexity,
                                 !.cache_key = cache_key,
                                 !.writesAtStart = WritesTo(cache_key),
                                 !.lookupAge = IF cache_key \in DOMAIN cache
                                               THEN now - cache[cache_key].timestamp
                                               ELSE -1]
       IN  calls' = [calls EXCEPT ![t] =
               IF scenario_type \notin SCENARIO_TYPES
               THEN [rec EXCEPT !.pc = "raisedValueError"]
               ELSE IF ~(1 <= complexity /\ complexity <= 5)
               THEN [rec EXCEPT !.pc = "raisedValueError", !.complexity = complexity]
               ELSE IF CacheHit(cache, cache_key, now)
               THEN [looked EXCEPT !.pc = "returned",
                                   !.result = [scenario |-> cache[cache_key].scenario,
                                               validation |-> cache[cache_key].validation],
                                   !.fromCache = TRUE]
               ELSE NextAttempt(looked)]
    /\ UNCHANGED <<cache, now, ticks, writes, config, validatorKind, validatorOrg, complianceCache, registry, subject, outcome>>

\* the content source answers generate_scenario; the Scenario is built and
\* generate_injects is requested (lines 107-132)
ScenarioReply(t, scenario_data) ==
    /\ calls[t].pc = "awaitScenario"
    /\ IF ScenarioCtorRaises(calls[t].type, calls[t].complexity)
       THEN /\ calls' = [calls EXCEPT ![t] =
                   FailedAttempt([calls[t] EXCEPT !.failedBy = "Scenario"])]
       ELSE /\ calls' = [calls EXCEPT ![t] =
                   [calls[t] EXCEPT
                       !.pc = "awaitInjects",
                       !.failedBy = "",
                       !.scenario = NewScenario(FreshId, scenario_data.title,
                                        scenario_data.description, calls[t].type,
                                        calls[t].complexity, calls[t].organization_context,
                                        scenario_data.compliance_mappings, TRUE,
                                        calls[t].compliance_frameworks)]]
    /\ UNCHANGED <<cache, now, ticks, writes, config, validatorKind,
                   validatorOrg, complianceCache, registry, subject, outcome>>

\* the content source answers generate_injects; the injects are attached,
\* the candidate is validated and accepted or rejected (lines 129-163)
InjectsReply(t, injects) ==
    /\ calls[t].pc = "awaitInjects"
    /\ IF \E i \in 1..Len(injects) : InjectCtorRaises(injects[i])
       THEN /\ calls' = [calls EXCEPT ![t] =
                   FailedAttempt([calls[t] EXCEPT !.failedBy = "Inject"])]
            /\ UNCHANGED <<cache, writes>>
       ELSE LET scenario == AddInjects(calls[t].scenario, injects)
                rec == [calls[t] EXCEPT !.validations = @ + 1]
            IN  \E validation \in Verdicts(scenario) :
                    IF Accepted(validation.is_valid, validation.compliance_score)
                    THEN /\ cache' = CacheScenario(cache, rec.cache_key, scenario,
                                                   validation, now)
                         /\ writes' = (rec.cache_key :> (WritesTo(rec.cache_key) + 1))
                                      @@ writes
                         /\ calls' = [calls EXCEPT ![t] =
                                [rec EXCEPT !.pc = "returned",
                                            !.scenario = NoScenario,
                                            !.result = [scenario |-> scenario,
                                                        validation |-> validation],
                                            !.wrote = TRUE,
                                            !.writeNo = WritesTo(rec.cache_key) + 1]]
                    ELSE /\ calls' = [calls EXCEPT ![t] = RejectedAttempt(rec)]
                         /\ UNCHANGED <<cache, writes>>
    /\ UNCHANGED <<now, ticks, config, validatorKind, validatorOrg, complianceCache, registry, subject, outcome>>

\* an awaited content-source call raises exc into generate_scenario: an
\* error of the content source, or CancelledError when the caller cancels
Raise(t, exc) ==
    /\ calls[t].pc \in Awaiting
    /\ calls' = [calls EXCEPT ![t] =
           IF CaughtByExcept(exc)
           THEN FailedAttempt([calls[t] EXCEPT
                                   !.cancelled = @ \/ exc = "CancelledError",
                                   !.failedBy = "ContentSource"])
           ELSE [calls[t] EXCEPT !.pc = "cancelled", !.scenario = NoScenario,
                                 !.cancelled = TRUE]]
    /\ UNCHANGED <<cache, now, ticks, writes, config,
                   validatorKind, validatorOrg, complianceCache, registry, subject, outcome>>

ContentSourceError(t) == Raise(t, "Exception")

Cancel(t) == Raise(t, "CancelledError")

TickSteps == {1800, 3600, SecondsPerDay}

\* the wall clock advances
Tick(d) ==
    /\ ticks < MaxTicks
    /\ ticks' = ticks + 1
    /\ now' = now + d
    /\ UNCHANGED <<cache, calls, writes, config, validatorKind,
                   validatorOrg, complianceCache, registry, subject, outcome>>

Next ==
    \/ \E t \in Tasks, ty \in TypeArgs, org \in OrgArgs, fw \in FrameworkArgs,
          cl \in ComplexityArgs : Start(t, ty, org, fw, cl)
    \/ \E t \in Tasks, d \in ScenarioDatas : ScenarioReply(t, d)
    \/ \E t \in Tasks, l \in InjectLists : InjectsReply(t, l)
    \/ \E t \in Tasks : ContentSourceError(t)
    \/ \E t \in Tasks : Cancel(t)
    \/ \E d \in TickSteps : Tick(d)

Spec == Init /\ [][Next]_vars

\* the generator wired to the real ScenarioValidator
InitReal ==
    /\ cache = EmptyMap
    /\ calls = [t \in Tasks |-> IdleCall]
    /\ now = 0
    /\ ticks = 0
    /\ writes = EmptyMap
    /\ config = [max_attempts |-> MAX_GENERATION_ATTEMPTS,
                 compliance_threshold |-> COMPLIANCE_THRESHOLD,
                 cache_ttl |-> CACHE_TTL]
    /\ validatorKind = "real"
    /\ validatorOrg \in ValidatorOrgs
    /\ complianceCache = EmptyDict
    /\ registry = COMPLIANCE_FRAMEWORKS
    /\ subject = NoScenario
    /\ outcome = NoOutcome

SpecReal == InitReal /\ [][Next]_vars

----------------------------------------------------------------------------
(* Three calls of generate_scenario with identical inputs *)

\* a third task beside the two of Tasks; it never starts before "t2"
Callers == Tasks \cup {"t3"}

InitSameKey ==
    /\ cache = EmptyMap
    /\ calls = [t \in Callers |-> IdleCall]
    /\ now = 0
    /\ ticks = 0
    /\ writes = EmptyMap
    /\ config = [max_attempts |-> 2, compliance_threshold |-> COMPLIANCE_THRESHOLD,
                 cache_ttl |-> CACHE_TTL]
    /\ validatorKind = "stub"
    /\ validatorOrg \in ValidatorOrgs
    /\ complianceCache = EmptyDict
    /\ registry = COMPLIANCE_FRAMEWORKS
    /\ subject = NoScenario
    /\ outcome = NoOutcome

\* generate_scenario('security_incident', org, ['SOC2'], 3) by task t
StartSameKey(t) ==
    /\ t = "t3" => calls["t2"].pc # "idle"
    /\ Start(t, "security_incident", TechOrg, <<"SOC2">>, Some(3))

NextSameKey ==
    \/ \E t \in Callers : StartSameKey(t)
    \/ \E t \in Callers, d \in ScenarioDatas : ScenarioReply(t, d)
    \/ \E t \in Callers, l \in InjectLists : InjectsReply(t, l)
    \/ \E t \in Callers : ContentSourceError(t)
    \/ \E t \in Callers : Cancel(t)
    \/ \E d \in TickSteps : Tick(d)

SpecSameKey == InitSameKey /\ [][NextSameKey]_vars

----------------------------------------------------------------------------
(* Direct calls of Scenario.add_inject (models/scenario.py) *)

genVars == <<cache, calls, now, ticks, writes, config, validatorKind, validatorOrg>>

\* the state of the validator besides its organization context
valVars == <<complianceCache>>

\* a generator that nobody calls
GeneratorAtRest ==
    /\ cache = EmptyMap
    /\ calls = [t \in Tasks |-> IdleCall]
    /\ now = 0
    /\ ticks = 0
    /\ writes = EmptyMap
    /\ config = [max_attempts |-> MAX_GENERATION_ATTEMPTS,
                 compliance_threshold |-> COMPLIANCE_THRESHOLD,
                 cache_ttl |-> CACHE_TTL]
    /\ validatorKind = "real"
    /\ validatorOrg \in ValidatorOrgs
    /\ complianceCache = EmptyDict

\* sequence numbers of the injects offered to add_inject
MaxSequenceNumber == 3

InjectArgs ==
    {InjectData("action", n, d, None) : n \in 1..MaxSequenceNumber, d \in {-10, 0, 20, 25, 40}}

\* a scenario fresh from its constructor: no injects, 60 minutes
InitInjects ==
    /\ GeneratorAtRest
    /\ registry = COMPLIANCE_FRAMEWORKS
    /\ subject = NewScenario(1, GoodTitle, GoodDescription, "security_incident", 2,
                             TechOrg, FullMapping, FALSE, <<"SOC2">>)
    /\ outcome = NoOutcome

\* scenario.add_inject(Inject(**inject_data))
AddInjectCall(inject_data) ==
    /\ LET r == AddInject(subject, NewInject(inject_data))
       IN  /\ subject' = r[3]
           /\ outcome' = [op |-> "add_inject", inject |-> NewInject(inject_data),
                          success |-> r[1], error |-> r[2]]
    /\ UNCHANGED <<genVars, valVars, registry>>

NextInjects == \E inject_data \in InjectArgs : AddInjectCall(inject_data)

SpecInjects == InitInjects /\ [][NextInjects]_vars

----------------------------------------------------------------------------
(* Direct calls of calculate_compliance_score (utils/compliance.py) *)

\* validation_results['controls'] for a set of scored controls of soc2
ScoredControls(frameworks) ==
    UNION {[ids -> [score : {Rat(0, 1), Rat(1, 2), Rat(1, 1)}]] :
              ids \in SUBSET DOMAIN frameworks.soc2.controls}

InitScorer ==
    /\ GeneratorAtRest
    /\ registry \in {COMPLIANCE_FRAMEWORKS, ExtendedFrameworks}
    /\ subject \in {[controls |-> c] : c \in ScoredControls(registry)}
    /\ outcome = NoOutcome

\* calculate_compliance_score(validation_results, 'soc2')
CalculateComplianceScoreCall ==
    /\ outcome = NoOutcome
    /\ outcome' = [op |-> "calculate_compliance_score",
                   overall_score |->
                       CalculateComplianceScore(
                           [c \in DOMAIN subject.controls |-> subject.controls[c].score],
                           "soc2")]
    /\ UNCHANGED <<genVars, valVars, registry, subject>>

NextScorer == CalculateComplianceScoreCall

SpecScorer == InitScorer /\ [][NextScorer]_vars

----------------------------------------------------------------------------
(* Direct calls of ScenarioValidator.validate_scenario *)

\* the organization context of the validator tests: the scenario types are
\* declared under 'scenario_types', and there is no 'scenario_capabilities'
TestOrg ==
    [scenario_capabilities |-> {},
     scenario_types |-> {"security_incident", "business_continuity"},
     max_complexity |-> None, primary_framework |-> None]

\* organization contexts a validator is constructed with; an absent key
\* is {} for the two sets of types and None for the others
ValidatorOrgArgs ==
    {[scenario_capabilities |-> caps, scenario_types |-> {}, max_complexity |-> m,
      primary_framework |-> None] :
        caps \in {{"security_incident"}, {}}, m \in {None, Some(1)}}
    \cup {TestOrg}

\* scenarios handed to validate_scenario.  Title, description and
\* organization context are sound, or one of the three is too short or
\* empty
ScenarioArgs ==
    {AddInjects(NewScenario(1, st[1], st[2], "security_incident", 2, st[3], m, ai,
                            <<"SOC2">>), l) :
        st \in {<<GoodTitle, GoodDescription, TechOrg>>,
                <<"Test", GoodDescription, TechOrg>>,
                <<GoodTitle, "Too short", TechOrg>>,
                <<GoodTitle, GoodDescription, <<>> >>},
        m \in {FullMapping, NoArtifactsMapping, TestShapeMapping, UnknownControlMapping,
               EmptyDict, CriticalAndLowMapping, AllControlsMapping},
        ai \in BOOLEAN,
        l \in {ScoredInjects, PlainInjects, FewInjects, BriefInjects, ZeroScoreInjects}}

InitValidator ==
    /\ cache = EmptyMap
    /\ calls = [t \in Tasks |-> IdleCall]
    /\ now = 0
    /\ ticks = 0
    /\ writes = EmptyMap
    /\ config = [max_attempts |-> MAX_GENERATION_ATTEMPTS,
                 compliance_threshold |-> COMPLIANCE_THRESHOLD,
                 cache_ttl |-> CACHE_TTL]
    /\ validatorKind = "real"
    /\ validatorOrg \in ValidatorOrgArgs
    /\ complianceCache = EmptyDict
    /\ registry \in {COMPLIANCE_FRAMEWORKS, ExtendedFrameworks}
    /\ subject \in ScenarioArgs
    /\ outcome = NoOutcome

\* validator.validate_scenario(scenario); past the structure gate the
\* compliance gate runs and leaves its result in the cache
ValidateScenarioCall ==
    /\ outcome = NoOutcome
    /\ outcome' = [op |-> "validate_scenario",
                   result |-> ValidateScenario(subject, validatorOrg)]
    /\ complianceCache' =
           IF ValidateBasicStructure(subject) # <<>> THEN complianceCache
           ELSE ComplianceCacheAfter(subject, validatorOrg.primary_framework, validatorOrg)
    /\ UNCHANGED <<genVars, registry, subject>>

NextValidator == ValidateScenarioCall

SpecValidator == InitValidator /\ [][NextValidator]_vars

----------------------------------------------------------------------------
(* Claims *)

Missed(t) == calls[t].pc \notin {"idle", "raisedValueError"} /\ ~calls[t].fromCache

\* C1: whenever generate_scenario returns from a cache miss, the verdict of
\* the validator for the returned scenario was is_valid = TRUE with a
\* compliance score >= the generator's compliance_threshold; a call that
\* ended in any other way raised and returned nothing.
C1_ReturnsOnlyAccepted ==
    \A t \in Tasks :
        /\ (calls[t].pc = "returned" /\ ~calls[t].fromCache) =>
               /\ calls[t].result.validation.is_valid
               /\ RGe(calls[t].result.validation.compliance_score,
                      config.compliance_threshold)
        /\ calls[t].pc \in {"raisedValueError", "raisedRuntimeError", "cancelled"} =>
               calls[t].result = NoResult

C1_Witness ==
    \E t \in Tasks :
        /\ calls[t].pc = "returned" /\ ~calls[t].fromCache
        /\ calls[t].rejects > 0

\* C2: with max_attempts = N and a validator that rejected every candidate
\* it was shown, a call that missed the cache and was not cancelled ends
\* with RuntimeError after exactly N generate_scenario requests to the
\* content source, and has not written the cache; no call ever issues
\* more than N such requests.
C2_ExhaustsAfterExactlyN ==
    \A t \in Tasks :
        /\ calls[t].llmCalls <= config.max_attempts
        /\ (/\ Missed(t)
            /\ calls[t].pc \in Finished
            /\ calls[t].pc # "cancelled"
            /\ calls[t].validations = calls[t].rejects) =>
               /\ calls[t].pc = "raisedRuntimeError"
               /\ calls[t].llmCalls = config.max_attempts
               /\ ~calls[t].wrote
               /\ calls[t].result = NoResult

C2_Witness ==
    \E t \in Tasks :
        /\ calls[t].pc = "raisedRuntimeError"
        /\ config.max_attempts = MAX_GENERATION_ATTEMPTS
        /\ calls[t].rejects = MAX_GENERATION_ATTEMPTS
        /\ calls[t].llmCalls = MAX_GENERATION_ATTEMPTS

\* C3: when the validator rejects attempts 1..k-1 and accepts attempt k,
\* generate_scenario returns the scenario built in attempt k, k <= N, having
\* issued exactly k generate_scenario requests; a call that has returned
\* issues no further request.
C3_ReturnsAtAcceptingAttempt ==
    [][\A t \in Tasks :
          /\ (calls[t].pc = "awaitInjects" /\ calls'[t].pc = "returned") =>
                 /\ calls'[t].result.scenario.id = calls[t].scenario.id
                 /\ calls'[t].llmCalls = calls[t].attempts + 1
                 /\ calls'[t].llmCalls <= config.max_attempts
                 /\ (calls[t].rejects = calls[t].attempts =>
                         calls'[t].llmCalls = calls[t].rejects + 1)
          /\ calls[t].pc = "returned" => calls'[t] = calls[t]]_vars

C3_Witness ==
    \E t \in Tasks :
        /\ calls[t].pc = "returned" /\ ~calls[t].fromCache
        /\ calls[t].rejects = 2
        /\ calls[t].attempts = 2
        /\ calls[t].llmCalls = 3

SameInputs(a, b) ==
    /\ calls[a].type = calls[b].type
    /\ calls[a].organization_context = calls[b].organization_context
    /\ calls[a].compliance_frameworks = calls[b].compliance_frameworks
    /\ calls[a].complexity_level = calls[b].complexity_level

\* call b looked the cache up with the inputs of call a, after a had
\* returned its accepted pair, while a's entry was the current one and
\* younger than the TTL
SecondWithinTtl(a, b) ==
    /\ a # b
    /\ calls[a].pc = "returned" /\ ~calls[a].fromCache
    /\ calls[b].pc # "idle"
    /\ SameInputs(a, b)
    /\ calls[b].writesAtStart = calls[a].writeNo
    /\ calls[b].lookupAge >= 0
    /\ calls[b].lookupAge < config.cache_ttl

\* C4 as stated: of two calls with identical inputs, the second made after
\* the first returned and within the TTL, the content source is invoked at
\* most once in total, and the second returns the scenario and validation
\* of the first without running the validator.
C4_AtMostOneContentCall ==
    \A a, b \in Tasks :
        SecondWithinTtl(a, b) =>
            /\ calls[a].llmCalls + calls[b].llmCalls <= 1
            /\ calls[b].pc = "returned" /\ calls[b].fromCache
            /\ calls[b].result = calls[a].result
            /\ calls[b].validations = 0

\* C4 amended: the second call issues no content-source request and does
\* not run the validator, and returns the scenario and validation of the
\* first; the first call issued one request per attempt, between 1 and
\* max_attempts of them.
C4_SecondCallIsFree ==
    \A a, b \in Tasks :
        SecondWithinTtl(a, b) =>
            /\ calls[b].llmCalls = 0
            /\ calls[a].llmCalls >= 1 /\ calls[a].llmCalls <= config.max_attempts
            /\ calls[b].pc = "returned" /\ calls[b].fromCache
            /\ calls[b].result = calls[a].result
            /\ calls[b].result.scenario.id = calls[a].result.scenario.id
            /\ calls[b].validations = 0

C4_Witness ==
    \E a, b \in Tasks :
        /\ SecondWithinTtl(a, b)
        /\ calls[b].pc = "returned" /\ calls[b].fromCache
        /\ calls[b].lookupAge > 0
        /\ calls[a].llmCalls > 1

C6_CancelLeavesCache ==
    [][\A t \in Tasks :
          /\ calls'[t].cancelled =>
                 /\ calls'[t].pc = "cancelled"
                 /\ ~calls'[t].wrote
                 /\ calls'[t].result = NoResult
          /\ (calls'[t].cancelled /\ ~calls[t].cancelled) => cache' = cache
          /\ calls[t].cancelled => calls'[t] = calls[t]]_vars

C6_Witness ==
    \E t \in Tasks :
        /\ calls[t].pc = "cancelled"
        /\ calls[t].attempts > 0
        /\ cache # EmptyMap

\* C7: a lookup never returns an entry whose age is >= cache_ttl, whatever
\* the age.
C7_NoExpiredHit ==
    \A t \in Tasks :
        calls[t].lookupAge >= config.cache_ttl => ~calls[t].fromCache

\* C8: for a type outside the enumeration or a complexity level outside
\* 1..5 (0 and negative values included) generate_scenario raises
\* ValueError before any content-source request, without consuming an
\* attempt and without touching the cache.
C8_EagerArgumentValidation ==
    \A t \in Tasks :
        (/\ calls[t].pc # "idle"
         /\ \/ calls[t].type \notin SCENARIO_TYPES
            \/ /\ calls[t].complexity_level # None
               /\ calls[t].complexity_level[1] \notin 1..5) =>
            /\ calls[t].pc = "raisedValueError"
            /\ calls[t].llmCalls = 0
            /\ calls[t].attempts = 0
            /\ ~calls[t].wrote

\* C9: with the real validator, type security_incident, complexity 3, an
\* organization that declares the type, and a content source that returns a
\* title, a description, a fully evidenced single-control mapping and an
\* inject sequence in the shape of the content-source interface,
\* generate_scenario returns a scenario with is_valid = TRUE on the first
\* attempt.
C9_HappyPathFirstAttempt ==
    [][\A t \in Tasks :
          (/\ InjectsReply(t, PlainInjects)
           /\ calls[t].attempts = 0
           /\ calls[t].type = "security_incident"
           /\ calls[t].complexity_level = Some(3)
           /\ calls[t].scenario.title = GoodTitle
           /\ calls[t].scenario.description = GoodDescription
           /\ calls[t].scenario.compliance_mappings = FullMapping
           /\ validatorKind = "real"
           /\ "security_incident" \in validatorOrg.scenario_capabilities) =>
              /\ calls'[t].pc = "returned"
              /\ calls'[t].result.validation.is_valid]_vars

\* C10: for every complexity c in 1..5 generate_scenario builds a candidate
\* Scenario with complexity_level = c; no level in 1..5 makes the
\* construction of the candidate fail.
C10_EveryLevelBuildsCandidate ==
    [][\A t \in Tasks, d \in ScenarioDatas :
          (ScenarioReply(t, d) /\ calls[t].complexity \in 1..5) =>
              /\ calls'[t].pc = "awaitInjects"
              /\ calls'[t].scenario.complexity_level = calls[t].complexity]_vars

HasSequenceNumber(injects, n) ==
    \E i \in 1..Len(injects) : injects[i].sequence_number = n

\* C11: add_inject of an inject whose sequence number n the scenario already
\* holds returns (FALSE, "Sequence number <n> already exists") and leaves
\* the inject list, its order and the telemetry as they were; so does an
\* add_inject rejected for timeline overflow.
C11_RejectedAddChangesNothing ==
    [][\A d \in InjectArgs :
          AddInjectCall(d) =>
              /\ HasSequenceNumber(subject.injects, d.sequence_number) =>
                     /\ outcome'.success = FALSE
                     /\ outcome'.error =
                            Some("Sequence number " \o ToString(d.sequence_number)
                                 \o " already exists")
                     /\ subject' = subject
              /\ (/\ ~HasSequenceNumber(subject.injects, d.sequence_number)
                  /\ SumDelays(subject.injects) + d.delay_minutes
                         > subject.duration_minutes) =>
                     /\ outcome'.success = FALSE
                     /\ outcome'.error # None
                     /\ subject' = subject]_vars

C11_Witness ==
    /\ outcome.op = "add_inject"
    /\ ~outcome.success
    /\ outcome.error = Some("Sequence number 1 already exists")
    /\ Len(subject.injects) = 2
    /\ subject.inject_count = 2

StrictlyAscending(injects) ==
    \A i, j \in 1..Len(injects) :
        i < j => injects[i].sequence_number < injects[j].sequence_number

\* C12: after any sequence of add_inject calls on a scenario that started
\* with no injects, and so in every scenario generate_scenario built,
\* returned or cached, the stored injects have pairwise distinct sequence
\* numbers and are sorted ascending by sequence number.
C12_InjectsDistinctAndSorted ==
    /\ subject # NoScenario => StrictlyAscending(subject.injects)
    /\ \A t \in Tasks :
           /\ calls[t].scenario # NoScenario => StrictlyAscending(calls[t].scenario.injects)
           /\ calls[t].result # NoResult => StrictlyAscending(calls[t].result.scenario.injects)
    /\ \A k \in DOMAIN cache : StrictlyAscending(cache[k].scenario.injects)

\* the inject added last carries the lowest sequence number of three, and
\* the call before the state was a success
C12_Witness ==
    /\ outcome.op = "add_inject"
    /\ outcome.success
    /\ outcome.inject.sequence_number = 1
    /\ Len(subject.injects) = 3
    /\ subject.injects[1] = outcome.inject

\* C13: after any sequence of add_inject calls on a scenario that started
\* with no injects, and so in every scenario generate_scenario built,
\* returned or cached, the sum of delay_minutes over the stored injects is
\* <= the scenario's duration_minutes.
C13_DelaysWithinDuration ==
    /\ subject # NoScenario => SumDelays(subject.injects) <= subject.duration_minutes
    /\ \A t \in Tasks :
           /\ calls[t].scenario # NoScenario =>
                  SumDelays(calls[t].scenario.injects) <= calls[t].scenario.duration_minutes
           /\ calls[t].result # NoResult =>
                  SumDelays(calls[t].result.scenario.injects)
                      <= calls[t].result.scenario.duration_minutes
    /\ \A k \in DOMAIN cache :
           SumDelays(cache[k].scenario.injects) <= cache[k].scenario.duration_minutes

\* an inject has just been turned away for overflow from a scenario whose
\* injects fill the duration exactly
C13_Witness ==
    /\ outcome.op = "add_inject"
    /\ ~outcome.success
    /\ outcome.error = Some("Total inject duration exceeds scenario duration")
    /\ Len(subject.injects) >= 2
    /\ SumDelays(subject.injects) = subject.duration_minutes

\* ten times the weight of a severity: critical 1.0, high 0.8, medium 0.6,
\* low 0.4
TenTimesWeight(severity) ==
    CASE severity = "critical" -> 10
      [] severity = "high" -> 8
      [] severity = "medium" -> 6
      [] severity = "low" -> 4

\* over the scored controls of soc2: the sum of ten times the weight, and
\* the sum of score numerator * ten times the weight over the common
\* denominator 2 of the scores
WeightSum(scored) ==
    LET w(c) == IF c \in DOMAIN scored
                THEN TenTimesWeight(registry.soc2.controls[c].severity) ELSE 0
    IN  w("cc1") + w("cc2") + w("cc3") + w("cc4")

WeightedSum(scored) ==
    LET halves(c) == (scored[c].score[1] * 2) \div scored[c].score[2]
        w(c) == IF c \in DOMAIN scored
                THEN halves(c) * TenTimesWeight(registry.soc2.controls[c].severity)
                ELSE 0
    IN  w("cc1") + w("cc2") + w("cc3") + w("cc4")

\* C14: calculate_compliance_score returns overall_score =
\* sum(control_score * severity_weight) / sum(severity_weight) over the
\* scored controls, with weights critical 1.0, high 0.8, medium 0.6 and
\* low 0.4, and 0.0 when nothing is scored.
C14_WeightedOverallScore ==
    outcome.op = "calculate_compliance_score" =>
        IF DOMAIN subject.controls = {}
        THEN outcome.overall_score = RZero
        ELSE outcome.overall_score[1] * 2 * WeightSum(subject.controls)
                 = outcome.overall_score[2] * WeightedSum(subject.controls)

\* a critical control scoring 1.0 and a low control scoring 0.0 give
\* 1.0 / 1.4 = 5/7
C14_Witness ==
    /\ outcome.op = "calculate_compliance_score"
    /\ DOMAIN subject.controls = {"cc1", "cc4"}
    /\ subject.controls["cc1"].score = ROne
    /\ subject.controls["cc4"].score = RZero
    /\ outcome.overall_score = <<5, 7>>

\* validate_scenario has returned for a scenario that passes the structure
\* gate
ValidatedPastStructure ==
    /\ outcome.op = "validate_scenario"
    /\ Len(subject.title) >= 5
    /\ Len(subject.description) >= 20
    /\ subject.organization_context # <<>>

MappedControls == Get(subject.compliance_mappings, "controls", EmptyDict)

\* the mapped controls that soc2 has, each with its control score
CommonControlScores ==
    [c \in DOMAIN MappedControls \cap DOMAIN registry.soc2.controls |->
        ValidateControl("soc2", c, MappedControls[c], "strict").score]

C16_OnlyCommonControlsScored ==
    ValidatedPastStructure =>
        \/ outcome.result.compliance_score
               = CalculateComplianceScore(CommonControlScores, "soc2")
        \/ outcome.result.compliance_score = UnweightedMean(CommonControlScores, "soc2")

\* C17: a scenario whose mapping gives, for every control of the framework,
\* a description and evidence in the shape of the validator tests is
\* reported with compliance_score >= 0.95.
C17_TestShapeIsCompliant ==
    (/\ ValidatedPastStructure
     /\ registry = COMPLIANCE_FRAMEWORKS
     /\ subject.compliance_mappings = TestShapeMapping) =>
        RGe(outcome.result.compliance_score, Rat(95, 100))

\* C18: is_valid = TRUE iff the issue list is empty and compliance_score >=
\* compliance_threshold and (the scenario is not marked ai_generated or
\* ai_confidence >= ai_content_confidence); is_valid = TRUE never comes
\* with a non-empty issue list.
C18_FinalVerdict ==
    outcome.op = "validate_scenario" =>
        /\ outcome.result.is_valid <=>
               /\ outcome.result.issues = <<>>
               /\ RGe(outcome.result.compliance_score, Rat(95, 100))
               /\ \/ ~subject.ai_generated
                  \/ RGe(outcome.result.ai_confidence, Rat(85, 100))
        /\ outcome.result.is_valid => outcome.result.issues = <<>>

\* an AI-generated scenario found valid
C18_Witness ==
    /\ outcome.op = "validate_scenario"
    /\ outcome.result.is_valid
    /\ subject.ai_generated
    /\ outcome.result.compliance_score = ROne
    /\ outcome.result.ai_confidence = Rat(9, 10)

StructureIssues ==
    {"Invalid scenario title", "Invalid scenario description", "Missing organization context"}

\* C19: with a title shorter than 5 characters, a description shorter than
\* 20 or an empty organization context, validate_scenario returns is_valid
\* = FALSE with one structure issue and nothing of the later gates: no
\* type, complexity, inject, compliance or AI issue, no inject or
\* compliance details, compliance_score and ai_confidence 0.0.
C19_StructureGateIsFatal ==
    (/\ outcome.op = "validate_scenario"
     /\ \/ Len(subject.title) < 5
        \/ Len(subject.description) < 20
        \/ subject.organization_context = <<>>) =>
        /\ ~outcome.result.is_valid
        /\ Len(outcome.result.issues) = 1
        /\ outcome.result.issues[1] \in StructureIssues
        /\ outcome.result.details = {}
        /\ outcome.result.compliance_score = RZero
        /\ outcome.result.ai_confidence = RZero

\* the structure gate stopped a scenario that every later gate would have
\* turned down as well
C19_Witness ==
    /\ outcome.op = "validate_scenario"
    /\ Len(subject.title) < 5
    /\ outcome.result.issues = <<"Invalid scenario title">>
    /\ validatorOrg.scenario_capabilities = {}
    /\ validatorOrg.max_complexity = Some(1)
    /\ Len(subject.injects) < 3
    /\ subject.compliance_mappings = TestShapeMapping
    /\ subject.ai_generated

InjectIssues ==
    {"Invalid inject count", "Total duration below minimum", "Total duration exceeds maximum",
     "Invalid inject title", "Invalid inject description", "Missing required content fields",
     "Duplicate sequence number"}

\* the gate an issue comes from, in the order of the gates
GateOf(issue) ==
    CASE issue = "Invalid scenario type" -> 1
      [] issue = "Invalid complexity level" -> 2
      [] issue \in InjectIssues -> 3
      [] issue = "Compliance score below required threshold" -> 4
      [] issue = "AI content confidence below threshold" -> 5

Reported(gate) ==
    \E i \in 1..Len(outcome.result.issues) : GateOf(outcome.result.issues[i]) = gate

TypeGateFails == subject.type \notin validatorOrg.scenario_capabilities

ComplexityGateFails ==
    subject.complexity_level >
        (IF validatorOrg.max_complexity = None THEN 5 ELSE validatorOrg.max_complexity[1])

InjectGateFails ==
    \/ Len(subject.injects) < 3 \/ Len(subject.injects) > 10
    \/ SumDelays(subject.injects) < 30 \/ SumDelays(subject.injects) > 240

ComplianceGateFails ==
    \/ ~(DOMAIN MappedControls \subseteq DOMAIN registry.soc2.controls)
    \/ ~RGe(CalculateComplianceScore(CommonControlScores, "soc2"), Rat(95, 100))

\* the injects of a scenario carry the same score or none, so the mean
\* of the scores is that score
AiGateFails ==
    /\ subject.ai_generated
    /\ ~\E i \in 1..Len(subject.injects) :
            /\ subject.injects[i].ai_content_score # None
            /\ RGe(subject.injects[i].ai_content_score[1], Rat(85, 100))

\* C20: once the structure gate has passed, the type, complexity, inject,
\* compliance and AI-confidence gates all run, in that order: the issue
\* list holds an issue of every gate that fails and of no gate that
\* passes, in the order of the gates, and the inject and compliance details
\* are always reported.
C20_NoEarlyExit ==
    ValidatedPastStructure =>
        /\ Reported(1) <=> TypeGateFails
        /\ Reported(2) <=> ComplexityGateFails
        /\ Reported(3) <=> InjectGateFails
        /\ Reported(4) <=> ComplianceGateFails
        /\ Reported(5) <=> AiGateFails
        /\ \A i, j \in 1..Len(outcome.result.issues) :
               i < j => GateOf(outcome.result.issues[i]) <= GateOf(outcome.result.issues[j])
        /\ outcome.result.details = {"injects", "compliance"}

\* all five gates fail on one scenario and all five are reported
C20_Witness ==
    /\ ValidatedPastStructure
    /\ TypeGateFails /\ ComplexityGateFails /\ InjectGateFails
    /\ ComplianceGateFails /\ AiGateFails
    /\ \A g \in 1..5 : Reported(g)

----------------------------------------------------------------------------
(* Direct calls of ScenarioValidator.validate_compliance_requirements *)

\* scenarios handed to validate_compliance_requirements: two identities,
\* each with a mapping that is compliant, not compliant, or fails to score
ComplianceSubjects ==
    {NewScenario(id, GoodTitle, GoodDescription, "security_incident", 2, TechOrg, m,
                 FALSE, <<"SOC2">>) :
        id \in 1..2, m \in {FullMapping, NoArtifactsMapping, UnknownControlMapping}}

\* history of the direct calls: per cache key the result of the first
\* call and the result of the first call whose computation went through
NoComplianceCall == [op |-> "none", first |-> EmptyDict, firstScored |-> EmptyDict]

InitCompliance ==
    /\ GeneratorAtRest
    /\ registry = COMPLIANCE_FRAMEWORKS
    /\ subject \in ComplianceSubjects
    /\ outcome = NoComplianceCall

\* the caller turns to another scenario, or assigns another mapping to the
\* scenario it holds (scenario.compliance_mappings = ...)
Present(scenario) ==
    /\ subject # scenario
    /\ subject' = scenario
    /\ outcome' = [op |-> "present", first |-> outcome.first,
                   firstScored |-> outcome.firstScored]
    /\ UNCHANGED <<genVars, valVars, registry>>

\* validator.validate_compliance_requirements(scenario, framework_id)
ValidateComplianceRequirementsCall(framework_id) ==
    /\ LET cache_key == ComplianceCacheKey(subject, framework_id)
           result == ValidateComplianceRequirements(subject, framework_id, validatorOrg)
       IN  outcome' =
               [op |-> "validate_compliance_requirements",
                cache_key |-> cache_key,
                framework_id |-> framework_id,
                result |-> result,
                repeated |-> cache_key \in DOMAIN outcome.first,
                served |-> cache_key \in DOMAIN outcome.firstScored,
                first |-> IF cache_key \in DOMAIN outcome.first THEN outcome.first
                          ELSE (cache_key :> result) @@ outcome.first,
                firstScored |-> IF cache_key \in DOMAIN outcome.firstScored \/ result.error
                                THEN outcome.firstScored
                                ELSE (cache_key :> result) @@ outcome.firstScored]
    /\ complianceCache' = ComplianceCacheAfter(subject, framework_id, validatorOrg)
    /\ UNCHANGED <<genVars, registry, subject>>

\* the framework_id argument: left out, the default framework by name, and
\* a framework the registry does not have
NextCompliance ==
    \/ \E scenario \in ComplianceSubjects : Present(scenario)
    \/ \E framework_id \in {None, Some("soc2"), Some("iso27001")} :
           ValidateComplianceRequirementsCall(framework_id)

SpecCompliance == InitCompliance /\ [][NextCompliance]_vars

----------------------------------------------------------------------------
(* Direct calls of regenerate_injects and customize_scenario               *)
(* (services/scenario_generator.py)                                        *)

\* [Inject(**inject_data) for inject_data in new_injects]
RECURSIVE NewInjects(_)
NewInjects(new_injects) ==
    IF new_injects = <<>> THEN <<>>
    ELSE <<NewInject(Head(new_injects))>> \o NewInjects(Tail(new_injects))

\* what a direct call of the generator hands back: an exception, or the
\* triple (success, injects or scenario, validation)
Raised(exc) ==
    [raised |-> exc, success |-> FALSE, injects |-> <<>>, scenario |-> NoScenario,
     validation |-> NoValidation]

\* ScenarioGenerator.regenerate_injects: the content source raises or
\* delivers new_injects; an Inject constructor that raises ends the call
\* with that exception (lines 216-218: logged and raised again)
RegenerateInjects(scenario, complexity_level, reply) ==
    IF reply.raises THEN Raised("Exception")
    ELSE IF \E i \in 1..Len(reply.injects) : InjectCtorRaises(reply.injects[i])
    THEN Raised("ValidationError")
    ELSE LET validation_results == ValidateInjects(NewInjects(reply.injects))
         IN  IF ~validation_results.is_valid
             THEN [raised |-> "", success |-> FALSE, injects |-> <<>>,
                   scenario |-> NoScenario, validation |-> validation_results]
             ELSE [raised |-> "", success |-> TRUE,
                   injects |-> NewInjects(reply.injects),
                   scenario |-> NoScenario, validation |-> validation_results]

\* customization_params.get(key, default), an absent key being None
ParamOr(param, default) == IF param = None THEN default ELSE param[1]

\* mutant of the copy: the title of the base is kept whatever is asked for
CustomizedKeepsTitle(base_scenario, customization_params) ==
    NewScenario(base_scenario.id + 1, base_scenario.title,
                ParamOr(customization_params.description, base_scenario.description),
                base_scenario.type,
                ParamOr(customization_params.complexity_level,
                        base_scenario.complexity_level),
                base_scenario.organization_context, base_scenario.compliance_mappings,
                FALSE, <<>>)

\* mutant of the copy: the injects of the base are carried over
CustomizedWithInjects(base_scenario, customization_params) ==
    [NewScenario(base_scenario.id + 1,
                 ParamOr(customization_params.title, base_scenario.title),
                 ParamOr(customization_params.description, base_scenario.description),
                 base_scenario.type,
                 ParamOr(customization_params.complexity_level,
                         base_scenario.complexity_level),
                 base_scenario.organization_context, base_scenario.compliance_mappings,
                 FALSE, <<>>)
        EXCEPT !.injects = base_scenario.injects,
               !.inject_count = base_scenario.inject_count]

\* the Scenario that customize_scenario builds (lines 241-252): a new
\* identity, no injects, default metadata
Customized(base_scenario, customization_params) ==
    NewScenario(base_scenario.id + 1,
                ParamOr(customization_params.title, base_scenario.title),
                ParamOr(customization_params.description, base_scenario.description),
                base_scenario.type,
                ParamOr(customization_params.complexity_level,
                        base_scenario.complexity_level),
                base_scenario.organization_context, base_scenario.compliance_mappings,
                FALSE, <<>>)

\* customize_scenario reaches validate_scenario (line 267): the Scenario
\* constructor did not raise and, when asked for, the regeneration succeeded
CustomizeValidates(base_scenario, customization_params, reply) ==
    /\ ~ScenarioCtorRaises(base_scenario.type,
                           ParamOr(customization_params.complexity_level,
                                   base_scenario.complexity_level))
    /\ customization_params.regenerate_injects =>
           RegenerateInjects(Customized(base_scenario, customization_params),
                             customization_params.complexity_level, reply).success

\* ScenarioGenerator.customize_scenario; every exception is logged and
\* raised again (lines 272-274)
CustomizeScenario(base_scenario, customization_params, reply) ==
    IF ScenarioCtorRaises(base_scenario.type,
                          ParamOr(customization_params.complexity_level,
                                  base_scenario.complexity_level))
    THEN Raised("ValidationError")
    ELSE LET customized_scenario == Customized(base_scenario, customization_params)
             regenerated == RegenerateInjects(customized_scenario,
                                              customization_params.complexity_level, reply)
             composed == IF customization_params.regenerate_injects
                         THEN AddInjects(customized_scenario, reply.injects)
                         ELSE customized_scenario
             \* the composed scenario is a value before it is validated
             validation_results ==
                 CHOOSE v \in {ValidateScenario(s, validatorOrg) : s \in {composed}} : TRUE
         IN  IF customization_params.regenerate_injects /\ regenerated.raised # ""
             THEN regenerated
             ELSE IF customization_params.regenerate_injects /\ ~regenerated.success
             THEN [raised |-> "", success |-> FALSE, injects |-> <<>>,
                   scenario |-> customized_scenario,
                   validation |-> regenerated.validation]
             ELSE [raised |-> "", success |-> validation_results.is_valid,
                   injects |-> <<>>, scenario |-> composed,
                   validation |-> validation_results]

\* an inject record with everything in order
GoodInject(sequence_number, delay_minutes) ==
    InjectData("action", sequence_number, delay_minutes, HighScore)

\* a valid sequence, and sequences invalid in one respect each
ShortTitleInjects ==
    <<[GoodInject(1, 10) EXCEPT !.title = "Hi"], GoodInject(2, 20), GoodInject(3, 10)>>

ShortDescriptionInjects ==
    <<[GoodInject(1, 10) EXCEPT !.description = "Too short"], GoodInject(2, 20),
      GoodInject(3, 10)>>

DuplicateInjects == <<GoodInject(1, 10), GoodInject(2, 20), GoodInject(2, 10)>>

LongInjects == <<GoodInject(1, 100), GoodInject(2, 100), GoodInject(3, 50)>>

MissingContentInjects ==
    <<GoodInject(1, 10), [GoodInject(2, 20) EXCEPT !.content = {"message"}],
      GoodInject(3, 10)>>

\* a valid sequence that runs for 90 minutes, longer than the scenario
SlowInjects == <<GoodInject(1, 30), GoodInject(2, 30), GoodInject(3, 30)>>

RegeneratedLists ==
    {ScoredInjects, SlowInjects, FewInjects, BriefInjects, LongInjects, DuplicateInjects,
     ShortTitleInjects, ShortDescriptionInjects, MissingContentInjects, BadTypeInjects}

\* what the awaited generate_injects does: it raises, or it delivers
InjectReplies ==
    {[raises |-> TRUE, injects |-> <<>>]}
    \cup {[raises |-> FALSE, injects |-> l] : l \in RegeneratedLists}

\* no content request is made
NotAsked == [raises |-> FALSE, injects |-> <<>>]

\* customization_params: each key present or not
CustomizationArgs ==
    [title : {None, Some("Test"), Some("Customized Scenario")},
     description : {None, Some("Too short"), Some("Customized scenario description")},
     complexity_level : {None} \cup {Some(n) : n \in 1..5},
     regenerate_injects : BOOLEAN]

\* accepted scenarios as generate_scenario returns them
BaseScenarios ==
    {AddInjects(NewScenario(1, GoodTitle, GoodDescription, "security_incident", n, TechOrg,
                            FullMapping, TRUE, <<"SOC2">>), ScoredInjects) : n \in 1..3}

InitCustomize ==
    /\ GeneratorAtRest
    /\ registry = COMPLIANCE_FRAMEWORKS
    /\ subject \in BaseScenarios
    /\ outcome = NoOutcome

\* generator.regenerate_injects(scenario, complexity_level)
RegenerateInjectsCall(complexity_level, reply) ==
    /\ outcome = NoOutcome
    /\ outcome' = [op |-> "regenerate_injects",
                   complexity_level |-> complexity_level,
                   requested |-> OrDefault(complexity_level, subject.complexity_level),
                   reply |-> reply,
                   result |-> RegenerateInjects(subject, complexity_level, reply)]
    /\ UNCHANGED <<genVars, valVars, registry, subject>>

\* generator.customize_scenario(base_scenario, customization_params); when
\* the call reaches validate_scenario and the structure gate passes, the
\* compliance result of the new scenario enters the validator's cache
CustomizeScenarioCall(customization_params, reply) ==
    /\ outcome = NoOutcome
    /\ \E result \in {CustomizeScenario(subject, customization_params, reply)} :
           /\ outcome' = [op |-> "customize_scenario",
                          params |-> customization_params,
                          reply |-> reply,
                          result |-> result]
           /\ complianceCache' =
                  IF /\ CustomizeValidates(subject, customization_params, reply)
                     /\ ValidateBasicStructure(result.scenario) = <<>>
                  THEN ComplianceCacheAfter(result.scenario, validatorOrg.primary_framework,
                                            validatorOrg)
                  ELSE complianceCache
    /\ UNCHANGED <<genVars, registry, subject>>

NextCustomize ==
    \/ \E cl \in {None, Some(3)}, reply \in InjectReplies : RegenerateInjectsCall(cl, reply)
    \/ \E p \in CustomizationArgs :
           \E reply \in IF p.regenerate_injects THEN InjectReplies ELSE {NotAsked} :
               CustomizeScenarioCall(p, reply)

SpecCustomize == InitCustomize /\ [][NextCustomize]_vars

----------------------------------------------------------------------------
(* Claims C21..C30 *)

ReportedKeys ==
    {"is_valid", "issues", "compliance_score", "ai_confidence", "validation_duration"}

\* C21: validate_scenario never raises: an error inside a gate (a failing
\* compliance computation) becomes an entry of the issue list with
\* is_valid = FALSE, and every returned report, the report of a failed
\* structure gate included, carries is_valid, issues, compliance_score,
\* ai_confidence and validation_duration.
C21_CompleteReportAlways ==
    outcome.op = "validate_scenario" =>
        /\ ReportedKeys \subseteq outcome.result.keys
        /\ (/\ ValidatedPastStructure
            /\ ComputeCompliance(subject, validatorOrg.primary_framework,
                                 validatorOrg).error) =>
               /\ ~outcome.result.is_valid
               /\ Reported(4)

\* the scenario types an organization context declares, under either key
DeclaredTypes == validatorOrg.scenario_capabilities \cup validatorOrg.scenario_types

\* C22: the type gate records no type issue exactly when the scenario type
\* is in the fixed enumeration and in the set of scenario types the
\* organization context declares: for a context that declares a list of
\* scenario types, exactly the declared types pass the gate.
C22_DeclaredTypesPass ==
    ValidatedPastStructure =>
        (~Reported(1) <=> /\ subject.type \in SCENARIO_TYPES
                          /\ subject.type \in DeclaredTypes)

\* the scores of the injects that carry one, 0.0 included
RECURSIVE CarriedScores(_)
CarriedScores(injects) ==
    IF injects = <<>> THEN <<>>
    ELSE (IF Head(injects).ai_content_score # None
          THEN <<Head(injects).ai_content_score[1]>> ELSE <<>>)
         \o CarriedScores(Tail(injects))

\* the arithmetic mean of the scenario-level score, when present, and of
\* the scores the injects carry; 0.0 when there is none
MeanOfCarriedScores ==
    LET scores == (IF subject.ai_description_score # None
                   THEN <<subject.ai_description_score[1]>> ELSE <<>>)
                  \o CarriedScores(subject.injects)
    IN  IF scores = <<>> THEN RZero
        ELSE RDiv(SumSeq(scores), <<Len(scores), 1>>)

\* C23: for a scenario marked ai_generated, ai_confidence is the arithmetic
\* mean of the scenario-level content-quality score (when present) and the
\* scores of exactly those injects that carry one, 0.0 when there is no
\* score at all, and the AI issue is recorded exactly when that mean is
\* below ai_content_confidence; a scenario not marked ai_generated never
\* gets an AI issue.
C23_MeanOfCarriedScores ==
    ValidatedPastStructure =>
        IF subject.ai_generated
        THEN /\ outcome.result.ai_confidence = MeanOfCarriedScores
             /\ Reported(5) <=> RLt(MeanOfCarriedScores, Rat(85, 100))
        ELSE ~Reported(5)

\* the last call was validate_compliance_requirements
ComplianceCalled == outcome.op = "validate_compliance_requirements"

\* what the computation gives for the scenario as it is now
ComputedNow == ComputeCompliance(subject, outcome.framework_id, validatorOrg)

ValidSequence(new_injects) ==
    /\ Len(new_injects) >= 3 /\ Len(new_injects) <= 10
    /\ \A i, j \in 1..Len(new_injects) :
           i # j => new_injects[i].sequence_number # new_injects[j].sequence_number
    /\ SumDelays(new_injects) >= 30 /\ SumDelays(new_injects) <= 240
    /\ \A i \in 1..Len(new_injects) :
           /\ Len(new_injects[i].title) >= 5
           /\ Len(new_injects[i].description) >= 20
           /\ REQUIRED_CONTENT_FIELDS \subseteq new_injects[i].content
           /\ new_injects[i].type \in INJECT_TYPES

\* C25: for every sequence the content source delivers, regenerate_injects
\* returns without raising: (false, [], validation) for an invalid
\* sequence (wrong count, duplicate sequence numbers, duration out of
\* range, short title or description, missing content field, unknown
\* inject type), (true, injects, validation) with one Inject per delivered
\* item for a valid one.
C25_InvalidSequenceIsNoError ==
    (outcome.op = "regenerate_injects" /\ ~outcome.reply.raises) =>
        /\ outcome.result.raised = ""
        /\ IF ValidSequence(outcome.reply.injects)
           THEN /\ outcome.result.success
                /\ outcome.result.injects = NewInjects(outcome.reply.injects)
           ELSE /\ ~outcome.result.success
                /\ outcome.result.injects = <<>>

\* C26: customize_scenario reports a customization that fails validation
\* as (false, scenario, validation) and never as an exception, for any
\* replacement title, description and complexity_level in 1..5, with or
\* without regenerate_injects.
C26_FailureIsAResult ==
    (/\ outcome.op = "customize_scenario"
     /\ ~outcome.reply.raises) =>
        /\ outcome.result.raised = ""
        /\ outcome.result.scenario # NoScenario
        /\ outcome.result.validation # NoValidation

\* an awaited content-source call of task t raises an error that the
\* except clause catches
SourceFailureStep(t) ==
    /\ calls[t].pc \in Awaiting
    /\ calls'[t] # calls[t]
    /\ calls'[t].pc # "cancelled"
    /\ calls'[t].failedBy = "ContentSource"

\* C27: a content-source failure on attempt k < max_attempts is retried: it
\* counts as one attempt and attempt k + 1 starts with a fresh content
\* request, while a failure on the last attempt ends the call with the
\* attempts-exhausted error.  Failures and rejections share the one
\* counter: it never passes max_attempts, and a call whose counter has
\* reached max_attempts, by whatever mix of the two, has raised the
\* attempts-exhausted error without writing the cache.
C27_SourceFailureIsRetried ==
    [][\A t \in Tasks :
          /\ SourceFailureStep(t) =>
                 /\ calls'[t].attempts = calls[t].attempts + 1
                 /\ calls'[t].rejects = calls[t].rejects
                 /\ cache' = cache
                 /\ IF calls[t].attempts + 1 < config.max_attempts
                    THEN /\ calls'[t].pc = "awaitScenario"
                         /\ calls'[t].llmCalls = calls[t].llmCalls + 1
                    ELSE /\ calls'[t].pc = "raisedRuntimeError"
                         /\ calls'[t].llmCalls = calls[t].llmCalls
          /\ calls'[t].attempts <= config.max_attempts
          /\ calls'[t].attempts = config.max_attempts <=>
                 calls'[t].pc = "raisedRuntimeError"
          /\ calls'[t].pc = "raisedRuntimeError" => ~calls'[t].wrote]_vars

\* three attempts used up by rejections and content-source failures, the
\* last of them a failure
C27_Witness ==
    \E t \in Tasks :
        /\ config.max_attempts = 3
        /\ calls[t].pc = "raisedRuntimeError"
        /\ calls[t].attempts = 3
        /\ calls[t].failedBy = "ContentSource"
        /\ calls[t].rejects >= 1
        /\ calls[t].rejects < 3

\* the content source delivers the injects to task t
InjectsDelivered(t) ==
    /\ calls[t].pc = "awaitInjects"
    /\ calls'[t] # calls[t]
    /\ calls'[t].pc # "cancelled"
    /\ calls'[t].failedBy # "ContentSource"

\* C28: the rejection of a single inject (duplicate sequence number,
\* timeline overflow, malformed inject record) never aborts the attempt:
\* whatever records the content source delivers, the candidate is
\* validated in the same attempt.
C28_BadInjectIsSkipped ==
    [][\A t \in Tasks :
          InjectsDelivered(t) =>
              calls'[t].validations = calls[t].validations + 1]_vars

\* task w made write number n to the key
WroteAs(w, cache_key, n) ==
    /\ calls[w].wrote
    /\ calls[w].cache_key = cache_key
    /\ calls[w].writeNo = n

\* C29: when overlapping generate_scenario calls with identical inputs are
\* both accepted, the cache holds exactly one entry for the key, the
\* accepted pair of the call that finished last, and every later call
\* that looks the key up within the TTL returns the pair of the last call
\* that had finished by then.
C29_LastWriterWins ==
    /\ \A k \in DOMAIN cache :
           \E w \in Callers :
               /\ WroteAs(w, k, WritesTo(k))
               /\ cache[k].scenario = calls[w].result.scenario
               /\ cache[k].validation = calls[w].result.validation
    /\ \A w \in Callers : calls[w].wrote => DOMAIN cache = {calls[w].cache_key}
    /\ \A c \in Callers :
           (/\ calls[c].cache_key # ""
            /\ calls[c].writesAtStart >= 1
            /\ calls[c].lookupAge < config.cache_ttl) =>
               /\ calls[c].fromCache
               /\ \E w \in Callers :
                      /\ WroteAs(w, calls[c].cache_key, calls[c].writesAtStart)
                      /\ calls[c].result = calls[w].result

\* "t1" and "t2" both missed the empty cache and were both accepted with
\* different scenarios; "t3" is served the pair of the second writer
C29_Witness ==
    /\ calls["t1"].wrote /\ calls["t2"].wrote
    /\ calls["t1"].writesAtStart = 0 /\ calls["t2"].writesAtStart = 0
    /\ calls["t3"].fromCache
    /\ \E w, v \in Tasks :
           /\ calls[w].writeNo = 2 /\ calls[v].writeNo = 1
           /\ calls["t3"].result = calls[w].result
           /\ calls["t3"].result # calls[v].result
           /\ cache[calls[w].cache_key].scenario = calls[w].result.scenario

\* the call of task b is not held up: whatever the other task is doing, b
\* can start once it may, and each reply it waits for can be delivered
NotHeldUp(b) ==
    /\ (calls[b].pc = "idle" /\ calls["t1"].pc # "idle") =>
           ENABLED (\E ty \in TypeArgs, org \in OrgArgs, fw \in FrameworkArgs,
                      cl \in ComplexityArgs : Start(b, ty, org, fw, cl))
    /\ calls[b].pc = "awaitScenario" =>
           ENABLED (\E d \in ScenarioDatas : ScenarioReply(b, d))
    /\ calls[b].pc = "awaitInjects" =>
           ENABLED (\E l \in InjectLists : InjectsReply(b, l))

\* C30: calls for different cache keys do not block each other and do not
\* touch each other's cache entry: while one call is suspended in the
\* content source the other can start and take every step of its
\* attempts; a step changes the cache only by the write of the accepted
\* call under that call's own key, and a call returns a scenario of the
\* type and complexity it asked for.
C30_KeysAreIndependent ==
    [][/\ \A b \in Tasks : NotHeldUp(b)
       /\ DOMAIN cache \subseteq DOMAIN cache'
       /\ \A k \in DOMAIN cache' :
              (k \notin DOMAIN cache \/ cache'[k] # cache[k]) =>
                  \E t \in Tasks : /\ ~calls[t].wrote /\ calls'[t].wrote
                                    /\ calls'[t].cache_key = k
                                    /\ cache'[k].scenario = calls'[t].result.scenario
       /\ \A t \in Tasks :
              calls'[t].pc = "returned" =>
                  /\ calls'[t].result.scenario.type = calls'[t].type
                  /\ calls'[t].result.scenario.complexity_level = calls'[t].complexity]_vars

\* "t1" is still suspended in its first content request; "t2", started
\* after it for another key, was rejected once, then accepted, and has
\* returned, and the cache holds the entry of "t2" alone
C30_Witness ==
    /\ calls["t1"].pc = "awaitScenario"
    /\ calls["t1"].attempts = 0
    /\ calls["t1"].llmCalls = 1
    /\ calls["t2"].pc = "returned"
    /\ calls["t2"].wrote
    /\ calls["t2"].rejects >= 1
    /\ calls["t2"].cache_key # calls["t1"].cache_key
    /\ DOMAIN cache = {calls["t2"].cache_key}

----------------------------------------------------------------------------
(* Claims C31..C40 *)

----------------------------------------------------------------------------
(* Direct calls of ScenarioValidator.validate_injects *)

\* the longest of the short inject lists offered to validate_injects
MaxListLen == 4

\* Inject objects with everything in order but, possibly, their sequence
\* numbers: 15 minutes each
SequencedInjects(sequence_numbers) ==
    [i \in 1..Len(sequence_numbers) |-> NewInject(GoodInject(sequence_numbers[i], 15))]

\* the inject lists: every list of one to MaxListLen injects over the
\* sequence numbers, and a list of eleven injects, one more than
\* max_injects, the first two with the same sequence number
InjectSequenceArgs ==
    {SequencedInjects(s) :
        s \in UNION {[1..n -> 1..MaxSequenceNumber] : n \in 1..MaxListLen}}
    \cup {SequencedInjects([i \in 1..(VALIDATION_RULES.max_injects + 1) |->
                                IF i = 1 THEN 1 ELSE i - 1])}

InitValidateInjects ==
    /\ GeneratorAtRest
    /\ registry = COMPLIANCE_FRAMEWORKS
    /\ subject \in InjectSequenceArgs
    /\ outcome = NoOutcome

\* validate_injects(injects)
ValidateInjectsCall ==
    /\ outcome = NoOutcome
    /\ outcome' = [op |-> "validate_injects", result |-> ValidateInjects(subject)]
    /\ UNCHANGED <<genVars, valVars, registry, subject>>

NextValidateInjects == ValidateInjectsCall

SpecValidateInjects == InitValidateInjects /\ [][NextValidateInjects]_vars

\* two injects of the list share a sequence number
RepeatedSequenceNumber(injects) ==
    \E i, j \in 1..Len(injects) :
        i # j /\ injects[i].sequence_number = injects[j].sequence_number

\* C31: validate_injects reports a duplicate whenever two injects share a
\* sequence number: for every inject list with a repeated sequence number,
\* whatever its length, the result is invalid and its issue list holds a
\* duplicate-sequence-number issue.
C31_DuplicateAlwaysReported ==
    (outcome.op = "validate_injects" /\ RepeatedSequenceNumber(subject)) =>
        /\ ~outcome.result.is_valid
        /\ \E i \in 1..Len(outcome.result.issues) :
               outcome.result.issues[i] = "Duplicate sequence number"

\* the call of t has just looked its key up, found an entry there and was
\* not served from it: the entry had expired
FoundExpired(t) ==
    /\ calls[t].pc = "idle"
    /\ calls'[t].pc \notin {"idle", "raisedValueError"}
    /\ calls'[t].cache_key \in DOMAIN cache
    /\ ~calls'[t].fromCache

\* C32: lazy eviction: a cache lookup that finds an expired entry removes
\* that entry, so after the lookup the key is absent from the cache until a
\* later accepted generation stores a new entry.
C32_ExpiredEntryIsEvicted ==
    [][\A t \in Tasks :
           FoundExpired(t) => calls'[t].cache_key \notin DOMAIN cache']_vars

----------------------------------------------------------------------------
(* Direct calls of ComplianceFramework.validate_control and of             *)
(* validate_compliance_mapping (utils/compliance.py)                       *)

\* implementations of a control: an entry for some of its requirements, or
\* no 'controls' key at all.  The content of an entry: each of its keys
\* present and truthy, or not
ImplementationArgs(framework_id, control_id) ==
    LET requirements == COMPLIANCE_FRAMEWORKS[framework_id].controls[control_id].requirements
    IN  {[controls |-> entries] :
            entries \in UNION {[S -> [description : BOOLEAN, evidence : BOOLEAN,
                                      artifacts : BOOLEAN]] :
                                  S \in SUBSET {requirements[i] :
                                                  i \in 1..Len(requirements)}}}
        \cup {EmptyDict}

InitControl ==
    /\ GeneratorAtRest
    /\ registry = COMPLIANCE_FRAMEWORKS
    /\ subject \in UNION {{[framework_id |-> c[1], control_id |-> c[2],
                              implementation |-> i] : i \in ImplementationArgs(c[1], c[2])} :
                                c \in {<<"soc2", "cc1">>, <<"gdpr", "art5">>}}
    /\ outcome = NoOutcome

\* the loop of validate_control (lines 131-144): the findings, one per
\* requirement in the order of the control, and requirements_met
ControlFindings(framework_id, control_id, implementation, validation_level) ==
    LET requirements == registry[framework_id].controls[control_id].requirements
        level_config == VALIDATION_LEVELS[validation_level]
        findings == [i \in 1..Len(requirements) |->
                        [requirement |-> requirements[i],
                         score |-> ValidateRequirement(requirements[i], implementation,
                                                       level_config)]]
    IN  [findings |-> findings,
         requirements_met |->
             Cardinality({i \in 1..Len(requirements) :
                             RGe(findings[i].score, level_config.threshold)})]

\* framework.validate_control(control_id, implementation, validation_level)
ValidateControlCall(validation_level) ==
    /\ outcome = NoOutcome
    /\ \E result \in {ValidateControl(subject.framework_id, subject.control_id,
                                      subject.implementation, validation_level)},
          found \in {ControlFindings(subject.framework_id, subject.control_id,
                                     subject.implementation, validation_level)} :
           outcome' = [op |-> "validate_control", level |-> validation_level,
                       score |-> result.score, is_compliant |-> result.is_compliant,
                       findings |-> found.findings,
                       requirements_met |-> found.requirements_met]
    /\ UNCHANGED <<genVars, valVars, registry, subject>>

\* validate_compliance_mapping of a mapping that holds the control alone
ValidateComplianceMappingCall(validation_level) ==
    /\ outcome = NoOutcome
    /\ \E result \in {ValidateComplianceMapping(
                          [controls |-> (subject.control_id :> subject.implementation)],
                          subject.framework_id, validation_level)} :
           outcome' = [op |-> "validate_compliance_mapping", level |-> validation_level,
                       controls |-> result.controls,
                       overall_score |-> result.overall_score,
                       is_compliant |-> result.is_compliant]
    /\ UNCHANGED <<genVars, valVars, registry, subject>>

NextControl ==
    \/ \E validation_level \in DOMAIN VALIDATION_LEVELS :
           ValidateControlCall(validation_level)
    \/ \E validation_level \in DOMAIN VALIDATION_LEVELS :
           ValidateComplianceMappingCall(validation_level)

SpecControl == InitControl /\ [][NextControl]_vars

\* the strict score of a requirement in tenths, read off its entry
Tenths(implementation, requirement) ==
    LET entries == Get(implementation, "controls", EmptyDict)
    IN  IF requirement \notin DOMAIN entries THEN 0
        ELSE (IF entries[requirement].description THEN 4 ELSE 0)
             + (IF entries[requirement].evidence THEN 3 ELSE 0)
             + (IF entries[requirement].artifacts THEN 3 ELSE 0)

RECURSIVE SumTenths(_, _)
SumTenths(implementation, requirements) ==
    IF requirements = <<>> THEN 0
    ELSE Tenths(implementation, Head(requirements))
         + SumTenths(implementation, Tail(requirements))

InUnitInterval(x) == RGe(x, RZero) /\ RGe(ROne, x)

\* C33: strict requirement scoring: under level strict the score of a
\* requirement is 0.4 for a non-empty description plus 0.3 for evidence
\* plus 0.3 for artifacts, and 0.0 without an implementation entry, so a
\* requirement meets the 0.95 threshold exactly when all three are there;
\* the score of a control is the mean of its requirement scores; every
\* requirement, control and overall score lies in [0, 1].
C33_StrictRequirementScoring ==
    /\ (outcome.op = "validate_control" /\ outcome.level = "strict") =>
           LET requirements ==
                   registry[subject.framework_id].controls[subject.control_id].requirements
               n == Len(requirements)
           IN  /\ Len(outcome.findings) = n
               /\ \A i \in 1..n :
                      LET tenths == Tenths(subject.implementation, requirements[i])
                      IN  /\ outcome.findings[i].score = Rat(tenths, 10)
                          /\ RGe(outcome.findings[i].score, Rat(95, 100)) <=> tenths = 10
               /\ outcome.requirements_met =
                      Cardinality({i \in 1..n :
                                      Tenths(subject.implementation, requirements[i]) = 10})
               /\ outcome.score = Rat(SumTenths(subject.implementation, requirements), 10 * n)
    /\ outcome.op = "validate_control" =>
           /\ InUnitInterval(outcome.score)
           /\ \A i \in 1..Len(outcome.findings) : InUnitInterval(outcome.findings[i].score)
    /\ outcome.op = "validate_compliance_mapping" =>
           /\ InUnitInterval(outcome.overall_score)
           /\ \A c \in DOMAIN outcome.controls : InUnitInterval(outcome.controls[c])

\* validate_control under strict returned for cc1 with one requirement
\* fully shown (1.0), one without artifacts (0.7), one with a description
\* only (0.4) and one without an entry (0.0): the control scores 0.525
C33_Witness ==
    /\ outcome.op = "validate_control"
    /\ outcome.level = "strict"
    /\ subject.control_id = "cc1"
    /\ outcome.findings[1].score = ROne
    /\ outcome.findings[2].score = Rat(7, 10)
    /\ outcome.findings[3].score = Rat(4, 10)
    /\ outcome.findings[4].score = RZero
    /\ outcome.findings[4].requirement \notin DOMAIN subject.implementation.controls
    /\ outcome.requirements_met = 1
    /\ outcome.score = Rat(21, 40)

\* C34: the validation report carries a sub-result for every gate: after
\* validate_scenario on a scenario that passes the structure gate,
\* validation_details holds an entry for the type gate, the complexity
\* gate, the injects and the compliance result and, for an AI-generated
\* scenario, the AI-content result.
C34_SubResultForEveryGate ==
    ValidatedPastStructure =>
        /\ {"type", "complexity", "injects", "compliance"} \subseteq outcome.result.details
        /\ subject.ai_generated => "ai_content" \in outcome.result.details

\* customize_scenario has just returned or raised
CustomizeStep == outcome.op = "none" /\ outcome'.op = "customize_scenario"

RequestsContent(t) == calls'[t].llmCalls = calls[t].llmCalls + 1

\* the step ends an attempt of the call of t: with a verdict that rejects
\* the candidate, or with an exception that was caught
AttemptEnded(t) ==
    /\ calls[t].pc \in Awaiting
    /\ calls'[t].attempts = calls[t].attempts + 1
    /\ \/ calls'[t].rejects = calls[t].rejects + 1
       \/ calls'[t].failedBy # ""

\* C36: the attempts of one generate_scenario call are strictly sequential
\* and each requests new content: the content request of attempt k+1 is
\* issued only after the verdict (or failure) of attempt k is known, the
\* call never has two content-source calls in flight, and every attempt
\* issues its own generate_scenario request rather than validating the
\* previous candidate again.
C36_AttemptsAreSequential ==
    [][\A t \in Tasks :
           /\ calls'[t].llmCalls \in {calls[t].llmCalls, calls[t].llmCalls + 1}
           /\ RequestsContent(t) =>
                  /\ calls[t].pc = "idle" \/ AttemptEnded(t)
                  /\ calls'[t].pc = "awaitScenario"
                  /\ calls'[t].scenario = NoScenario
           /\ calls'[t].pc \in Awaiting => calls'[t].llmCalls = calls'[t].attempts + 1
           /\ calls'[t].pc = "awaitInjects" =>
                  calls[t].pc = "awaitScenario" \/ calls'[t] = calls[t]
           /\ calls'[t].validations > calls[t].validations =>
                  /\ calls[t].pc = "awaitInjects"
                  /\ calls'[t].validations = calls[t].validations + 1
                  /\ calls'[t].validations <= calls[t].llmCalls]_vars

\* the third attempt of "t1" is waiting for its scenario content: the
\* third request of the call, after one candidate was rejected and one
\* attempt failed
C36_Witness ==
    /\ calls["t1"].pc = "awaitScenario"
    /\ calls["t1"].attempts = 2
    /\ calls["t1"].llmCalls = 3
    /\ calls["t1"].rejects = 1
    /\ calls["t1"].validations = 1
    /\ calls["t1"].scenario = NoScenario

----------------------------------------------------------------------------
(* The generator with the real validator and a content source whose       *)
(* injects carry no content-quality score                                 *)

\* replies of generate_injects without a non-zero ai_content_score: no
\* score at all, a score of 0.0 on every inject, and too few injects
UnscoredInjectLists ==
    {PlainInjects,
     <<InjectData("notification", 1, 10, Some(RZero)),
       InjectData("action", 2, 20, Some(RZero)),
       InjectData("resolution", 3, 10, Some(RZero))>>,
     FewInjects}

NextUnscored ==
    \/ \E t \in Tasks, ty \in TypeArgs, org \in OrgArgs, fw \in FrameworkArgs,
          cl \in ComplexityArgs : Start(t, ty, org, fw, cl)
    \/ \E t \in Tasks, d \in ScenarioDatas : ScenarioReply(t, d)
    \/ \E t \in Tasks, l \in UnscoredInjectLists : InjectsReply(t, l)
    \/ \E t \in Tasks : ContentSourceError(t)
    \/ \E t \in Tasks : Cancel(t)
    \/ \E d \in TickSteps : Tick(d)

SpecUnscored == InitReal /\ [][NextUnscored]_vars

\* C37: with the real validator, generation cannot succeed without
\* content-quality scores: every candidate is AI-generated and has no
\* scenario-level score, so when no delivered inject carries a non-zero
\* ai_content_score the AI confidence of every attempt is 0.0, every
\* attempt is rejected, nothing is cached or returned, and a call that
\* runs through its attempts ends with the attempts-exhausted error after
\* max_attempts attempts.
C37_NoScoreNoSuccess ==
    /\ cache = EmptyMap
    /\ \A t \in Tasks :
           /\ calls[t].pc # "returned"
           /\ ~calls[t].wrote
           /\ calls[t].rejects = calls[t].validations
           /\ calls[t].pc = "raisedRuntimeError" =>
                  calls[t].attempts = config.max_attempts
           /\ calls[t].pc \in Awaiting => calls[t].attempts < config.max_attempts
           /\ calls[t].pc = "awaitInjects" =>
                  /\ calls[t].scenario.ai_generated
                  /\ calls[t].scenario.ai_description_score = None
                  /\ \A l \in UnscoredInjectLists :
                         \A candidate \in {AddInjects(calls[t].scenario, l)} :
                             \A validation \in {ValidateScenario(candidate, validatorOrg)} :
                                 /\ validation.ai_confidence = RZero
                                 /\ ~validation.is_valid

\* the call of "t1" ended with the attempts-exhausted error after three
\* attempts, each of which was validated and rejected
C37_Witness ==
    /\ calls["t1"].pc = "raisedRuntimeError"
    /\ calls["t1"].attempts = config.max_attempts
    /\ calls["t1"].rejects = config.max_attempts
    /\ calls["t1"].validations = config.max_attempts
    /\ calls["t1"].llmCalls = config.max_attempts
    /\ ~calls["t1"].cancelled
    /\ cache = EmptyMap

\* customize_scenario was called without inject regeneration
CustomizedWithoutInjects ==
    /\ outcome.op = "customize_scenario"
    /\ ~outcome.params.regenerate_injects

InTimelineWindow(scenario) ==
    LET total == SumDelays(scenario.injects)
        upper == IF VALIDATION_RULES.max_duration < scenario.duration_minutes
                 THEN VALIDATION_RULES.max_duration ELSE scenario.duration_minutes
    IN  /\ VALIDATION_RULES.min_duration <= total
        /\ total <= upper
        /\ upper = DEFAULT_DURATION_MINUTES
        /\ VALIDATION_RULES.min_injects <= Len(scenario.injects)
        /\ Len(scenario.injects) <= VALIDATION_RULES.max_injects

\* C39: timeline window of accepted scenarios: every scenario accepted by
\* generate_scenario with the real validator has a total inject delay T
\* with min_duration <= T <= min(max_duration, duration_minutes), between
\* 30 and 60 minutes under the defaults, and between min_injects and
\* max_injects stored injects; injects that would have pushed the total
\* above duration_minutes were dropped before the validation.
C39_AcceptedTimelineWindow ==
    /\ \A k \in DOMAIN cache : InTimelineWindow(cache[k].scenario)
    /\ \A t \in Tasks :
           calls[t].pc = "returned" => InTimelineWindow(calls[t].result.scenario)

\* "t1" was accepted with three injects of 45 minutes in total: what is
\* left of five delivered injects after the one with a repeated sequence
\* number and the one that would have brought the total to 75 minutes
\* were dropped
C39_Witness ==
    /\ calls["t1"].pc = "returned"
    /\ calls["t1"].wrote
    /\ Len(calls["t1"].result.scenario.injects) = 3
    /\ SumDelays(calls["t1"].result.scenario.injects) = 45
    /\ \A i \in 1..3 : calls["t1"].result.scenario.injects[i].sequence_number = i
    /\ calls["t1"].result.scenario.injects =
           SortBySequenceNumber(NewInjects(<<MessyInjects[1], MessyInjects[2],
                                             MessyInjects[4]>>))
    /\ SumDelays(MessyInjects) - MessyInjects[3].delay_minutes > DEFAULT_DURATION_MINUTES
    /\ cache[calls["t1"].cache_key].scenario = calls["t1"].result.scenario

\* the call of b starts with the inputs of the call of a, misses the cache
\* and issues its own content request
SecondStarts(a, b) ==
    /\ Start(b, calls[a].type, calls[a].organization_context,
             calls[a].compliance_frameworks, calls[a].complexity_level)
    /\ calls'[b].cache_key = calls[a].cache_key
    /\ ~calls'[b].fromCache
    /\ calls'[b].pc = "awaitScenario"
    /\ calls'[b].llmCalls = 1

\* both calls had the same inputs, b looked the key up before anything was
\* written under it, and both were accepted
BothAccepted(a, b) ==
    /\ a # b
    /\ SameInputs(a, b)
    /\ calls[a].pc = "returned" /\ calls[a].wrote
    /\ calls[b].pc = "returned" /\ calls[b].wrote
    /\ calls[b].writesAtStart = 0

\* C40: no single-flight per key: a second generate_scenario call with the
\* same inputs that starts while the first is suspended in the content
\* source, before the first has written the cache, is not held back; it
\* misses the cache as well and issues its own content-source requests,
\* and when both calls are accepted they return scenarios of their own,
\* with different ids.
C40_NoSingleFlight ==
    \A a, b \in Tasks :
        /\ (a # b /\ calls[a].pc \in Awaiting /\ calls[b].pc = "idle") =>
               /\ calls[a].cache_key \notin DOMAIN cache
               /\ ENABLED SecondStarts(a, b)
        /\ (a # b /\ SameInputs(a, b) /\ Missed(a) /\ Missed(b)) =>
               /\ calls[a].llmCalls >= 1 /\ calls[b].llmCalls >= 1
               /\ calls[a].scenario = NoScenario \/ calls[a].scenario # calls[b].scenario
        /\ BothAccepted(a, b) =>
               calls[a].result.scenario.id # calls[b].result.scenario.id

\* "t2" started with the inputs of "t1" while "t1" was suspended and the
\* cache was empty; both were accepted and returned different scenarios
C40_Witness ==
    /\ BothAccepted("t1", "t2")
    /\ calls["t2"].lookupAge = -1
    /\ ~calls["t1"].fromCache /\ ~calls["t2"].fromCache
    /\ calls["t1"].llmCalls >= 1 /\ calls["t2"].llmCalls >= 1
    /\ calls["t1"].writeNo = 1 /\ calls["t2"].writeNo = 2
    /\ calls["t1"].result.scenario.id # calls["t2"].result.scenario.id
    /\ calls["t1"].result.scenario # calls["t2"].result.scenario
    /\ cache[calls["t1"].cache_key].scenario = calls["t2"].result.scenario

====
